---- MODULE Spec2Model ----
(***************************************************************************)
(* Model of the Go report service (go-service): the authenticating         *)
(* NodeJSClient (internal/client/client.go) with its shared token store    *)
(* guarded by authMutex, and the PDFReportService orchestration            *)
(* (internal/service/report.go).                                           *)
(*                                                                         *)
(* Every inbound request is one worker (goroutine).  Strings are kept as   *)
(* strings where the code compares them; a token value is the number of    *)
(* the login response that carried it, 0 standing for the empty string.    *)
(***************************************************************************)
EXTENDS Integers, Sequences, FiniteSets, TLC

\* ------------------------------------------------------------- bounds ---
NumWorkers == 2       \* concurrent workers of the concurrent specification
MaxLogins  == 2       \* POST /auth/login requests sent in one behaviour
MaxClock   == 3       \* last clock tick a call can read
MaxHeaders == 4       \* Set-Cookie headers of a login response

\* --------------------------------------------------- program constants ---
TicksPerSecond == 2   \* resolution of the modelled clock below one second

Workers  == 1..NumWorkers
NoWorker == 0
NoData   == "<nil>"
NoStatus == 0

VARIABLES
    accessToken,   \* NodeJSClient.accessToken
    refreshToken,  \* NodeJSClient.refreshToken
    csrfToken,     \* NodeJSClient.csrfToken
    authMutex,     \* worker holding authMutex.Lock(), NoWorker when free
    readers,       \* workers holding authMutex.RLock()
    issued,        \* upstream: login requests answered so far
    loginCount,    \* POST /auth/login requests sent so far
    seen401,       \* some authenticated request has received a 401
    failedLogin,   \* some authenticate call has returned an error
    pc,            \* per worker: position in its call
    call,          \* per worker: operation and arguments of its call
    authFor,       \* per worker: caller of the running authenticate
    loginResp,     \* per worker: response of its POST /auth/login
    hdr,           \* per worker: token snapshot in the headers of its request in flight
    sends,         \* per worker: business requests sent by this call
    logins,        \* per worker: login requests sent by this call
    reauths,       \* per worker: authenticate calls made after a 401
    rejected,      \* per worker: a login of this call got an error status
    statuses,      \* per worker: statuses answered to this call's sends
    body,          \* per worker: body of the last response to this call's sends
    mar,           \* per worker: return of makeAuthenticatedRequest
    ret,           \* per worker: return of GetStudentByID
    clientCalls,   \* per worker: calls of nodeClient.GetStudentByID
    synthCalls,    \* per worker: calls of pdfGenerator.GenerateStudentReport
    now,           \* the wall clock, in ticks
    meta,          \* per worker: ReportMetadata of its call
    filePath,      \* per worker: path returned by the generator
    out,           \* per worker: return of the service method called
    errText,       \* per worker: text of the error the call returned
    statCalls,     \* per worker: os.Stat calls of getActualFileSize
    http,          \* per worker: the HTTP request handled and its response
    probe,         \* per worker: request and return of the client's HealthCheck
    health,        \* per worker: ServiceHealthStatus returned by HealthCheck
    sweep,         \* per worker: calls and return of pdfGenerator.CleanupOldReports
    listReq,       \* per worker: filters and endpoint of its GetAllStudents
    statOut,       \* per worker: return of os.Stat in getActualFileSize
    cancelled,     \* per worker: the context of its request has been cancelled
    pureIn,        \* arguments of a function called on its own
    pureOut,       \* return of that function
    lastReport,    \* the report last returned to a caller of CreateStudentPDF
    rpcNode,       \* department-module.js: rpcNode
    initialized,   \* department-module.js: initialized
    loaded,        \* department-module.js: the module body has run
    pending,       \* department-module.js: axios.get calls not yet settled
    requests,      \* department-module.js: axios.get calls made so far
    reported,      \* department-module.js: arguments of the errorHandler calls
    returned       \* department-module.js: returns of departmentModuleHandler

tokenVars == <<accessToken, refreshToken, csrfToken>>
clientVars == <<accessToken, refreshToken, csrfToken, authMutex, readers, issued,
                loginCount, seen401, failedLogin>>
workerVars == <<pc, call, authFor, loginResp, hdr, sends, logins, reauths,
                rejected, statuses, body, mar, ret, clientCalls, synthCalls>>
reportVars == <<now, meta, filePath, out, errText, statCalls, statOut>>
handlerVars == <<http, probe, health, sweep, listReq, cancelled>>
pureVars == <<pureIn, pureOut>>
historyVars == <<lastReport>>
backendVars == <<rpcNode, initialized, loaded, pending, requests, reported,
                 returned>>
vars == <<clientVars, workerVars, reportVars, handlerVars, pureVars,
          historyVars, backendVars>>

\* ------------------------------------------------------------- values ---
NoTokens  == [access |-> 0, refresh |-> 0, csrf |-> 0]
NoCall    == [op |-> "none", id |-> 0, by |-> ""]
NoLogin   == [err |-> FALSE, status |-> NoStatus, cookies |-> NoTokens]
NoMar     == [resp |-> NoStatus, err |-> "unset"]
NoRet     == [err |-> "unset", status |-> NoStatus, details |-> "",
              data |-> NoData]
NoMeta    == [GeneratedAt |-> 0, GeneratedBy |-> "", ReportID |-> <<>>]
NoOut     == [result |-> NoData, err |-> "unset", cause |-> "unset"]
NoText    == <<>>
NoHttp    == [route |-> "none", seg |-> <<>>, query |-> "", status |-> NoStatus,
              message |-> "", error |-> NoText, data |-> NoData]
NoProbe   == [sent |-> 0, hdr |-> NoTokens, failed |-> FALSE,
              status |-> NoStatus,
              err |-> "unset", text |-> NoText]
NoBody    == [kind |-> "none", success |-> FALSE, message |-> "",
              data |-> NoData]
NoEndpoint == [path |-> "", mark |-> "", params |-> <<>>]
NoListReq == [filters |-> <<>>, endpoint |-> NoEndpoint]
NoSweep   == [calls |-> 0, err |-> "unset", text |-> NoText]
NoHealth  == [Service |-> "", Healthy |-> FALSE, Message |-> "",
              Components |-> <<>>]

NoStat    == [called |-> FALSE, err |-> FALSE, size |-> 0]
NilString == [nil |-> TRUE, val |-> ""]
NilInt    == [nil |-> TRUE, val |-> 0]
NoConfig  == [nil |-> TRUE, ServiceUsername |-> "", ServicePassword |-> "",
              logger |-> FALSE]
NoCreds   == [sent |-> FALSE, Username |-> "", Password |-> ""]
NoPureIn  == [fn |-> "none", sptr |-> NilString, sdef |-> "",
              iptr |-> NilInt, idef |-> 0, cfg |-> NoConfig,
              headers |-> <<>>]
NoReport  == [id |-> 0, second |-> 0, ReportID |-> <<>>]
NoCookies == [access |-> <<>>, refresh |-> <<>>, csrf |-> <<>>]
NoPureOut == [done |-> FALSE, s |-> "", n |-> 0, err |-> "unset",
              client |-> "nil", warned |-> FALSE, cookies |-> NoCookies,
              login |-> NoCreds]

StoredTokens == [access |-> accessToken, refresh |-> refreshToken,
                 csrf |-> csrfToken]

\* The cookies a login response may carry for response number g: each of the
\* three directives is present with a value, or absent / empty.
CookieSets(g) == [access : {0, g}, refresh : {0, g}, csrf : {0, g}]

\* Outcomes of POST /auth/login: transport failure, error status, or a
\* success status with some set of Set-Cookie directives.
LoginOutcomes(g) ==
    {[err |-> TRUE, status |-> NoStatus, cookies |-> NoTokens]}
    \cup {[err |-> FALSE, status |-> s, cookies |-> NoTokens] : s \in {401, 500}}
    \cup {[err |-> FALSE, status |-> 200, cookies |-> c] : c \in CookieSets(g)}

\* Outcomes of a business request: transport failure, or a status with a body
\* envelope {success, data.name}.
TransportFailure == [err |-> TRUE, status |-> NoStatus, success |-> FALSE,
                     name |-> "", message |-> "connection refused",
                     body |-> "none"]

\* The message of the upstream's envelope for each status it answers.
UpstreamMessage(status) ==
    CASE status = 401 -> "Unauthorized"
      [] status = 403 -> "Forbidden"
      [] status = 404 -> "Student not found"
      [] status = 500 -> "Internal server error"
      [] OTHER -> "Request processed"

Answers(statusSet, names) ==
    {TransportFailure}
    \cup {[err |-> FALSE, status |-> s, success |-> FALSE, name |-> "",
           message |-> UpstreamMessage(s), body |-> "json"] :
             s \in statusSet \ {200}}
    \cup {[err |-> FALSE, status |-> 200, success |-> b, name |-> n,
           message |-> UpstreamMessage(200), body |-> "json"] :
             b \in BOOLEAN, n \in names}

\* A success status whose body is not JSON; message is the text of the
\* error json.Unmarshal returns for it.
MalformedAnswers ==
    {[err |-> FALSE, status |-> 200, success |-> FALSE, name |-> "",
      message |-> "invalid character '<' looking for beginning of value",
      body |-> "malformed"]}

\* ------------------------------------------------------------ helpers ---
\* Mutant of IsError: only server-class statuses count as errors.
IsError_ServerOnly(status) == status > 499

\* resty Response.IsError: status code above 399.
IsError(status) == status > 399

\* Mutant of AllExtracted: only the access token is required.
AllExtracted_AccessOnly(cookies) == cookies.access # 0

\* authenticate, lines 178-181: all three tokens were extracted.
AllExtracted(cookies) ==
    cookies.access # 0 /\ cookies.refresh # 0 /\ cookies.csrf # 0

\* ensureAuthenticated, line 200.
hasTokens == accessToken # 0 /\ refreshToken # 0 /\ csrfToken # 0

\* Mutant of CanRLock: the read sections do not take the mutex.
CanRLock_Unguarded == TRUE

\* authMutex.RLock() can be taken: no writer holds the mutex.
CanRLock == authMutex = NoWorker

\* authMutex.Lock() can be taken: no writer and no reader holds the mutex.
CanLock == authMutex = NoWorker /\ readers = {}

\* authMutex.RLock() and authMutex.RUnlock() of worker w.
RLock(held, w) == held \cup {w}

\* Mutant of RUnlock: the read lock is kept after the section.
RUnlock_Missing(held, w) == held

\* ensureAuthenticated lines 199-201 and makeAuthenticatedRequest lines
\* 215-219 and 238-242: each read section runs from RLock to RUnlock over
\* reads of the three fields alone, and RUnlock comes before the request.
RUnlock(held, w) == held \ {w}

\* Mutant of DeferredUnlock: the error return leaves the mutex locked.
DeferredUnlock_Missing(w) == w

\* authenticate, line 135: the deferred Unlock releases the mutex on every
\* return that follows the Lock.
DeferredUnlock(w) == NoWorker

\* Mutant of Needs401Retry: no answer leads to the reauthentication.
Needs401Retry_Never(answer) == FALSE

\* Mutant of Needs401Retry: every 4xx answer leads to the retry.
Needs401Retry_AnyClientError(answer) ==
    answer.err = FALSE /\ answer.status \in 400..499

\* makeAuthenticatedRequest, line 231: the condition of the single retry.
Needs401Retry(answer) == answer.err = FALSE /\ answer.status = 401

\* Mutant of RetryTokens: the retry is sent with the first snapshot.
RetryTokens_FirstSnapshot(w) == hdr[w]

\* makeAuthenticatedRequest, lines 238-248: the headers of the retry are
\* the three tokens read from the store after authenticate has returned.
RetryTokens(w) == StoredTokens

\* Mutant of EnsureOk: the error of ensureAuthenticated is ignored.
EnsureOk_Ignored(err) == TRUE

\* makeAuthenticatedRequest, line 211: the request goes on after
\* ensureAuthenticated only when it returned no error.
EnsureOk(err) == err = "nil"

\* makeAuthenticatedRequest, line 233: the retry goes on after the
\* reauthentication only when it returned no error.
ReauthOk(err) == err = "nil"

\* GetStudentByID, lines 255-258.
ClientInvalidID(id) == id <= 0

\* Mutant of InvalidID: zero passes the validation.
InvalidID_Negative(id) == id < 0

\* CreateStudentPDF, lines 51-53.
InvalidID(id) == id <= 0

\* Mutant of FetchOk: the error of the fetch is ignored.
FetchOk_Ignored(err) == TRUE

\* CreateStudentPDF, lines 56-59: the call goes on to the generator only
\* when GetStudentByID returned no error.
FetchOk(err) == err = "nil"

\* Mutant of GenerateOk: the error of the generator is ignored.
GenerateOk_Ignored(g) == TRUE

\* CreateStudentPDF, lines 73-76: the call goes on to the artifact only
\* when GenerateStudentReport returned no error.
GenerateOk(g) == ~g.err

\* Mutant of FormatName: the name is returned as it is.
FormatName_Raw(name) == name

\* Student.FormatName.
FormatName(name) == IF name # "" THEN name ELSE "N/A"

\* Mutant of Unix: the reading keeps its resolution below one second.
Unix_Ticks(t) == t

\* time.Time.Unix(): whole seconds of a clock reading.
Unix(t) == t \div TicksPerSecond

\* fmt.Sprintf("RPT-%d-%d", studentID, time.Now().Unix())
ReportID(id, t) == <<"RPT-", id, "-", Unix(t)>>

\* resty Response.Status(): the status line of a response.
StatusLine(status) ==
    CASE status = 401 -> "401 Unauthorized"
      [] status = 403 -> "403 Forbidden"
      [] status = 404 -> "404 Not Found"
      [] status = 500 -> "500 Internal Server Error"
      [] OTHER -> "200 OK"

\* Mutant of ErrorMessage: the message of the envelope is dropped.
ErrorMessage_StatusLine(answer) == StatusLine(answer.status)

\* GetStudentByID lines 279-294, GetAllStudents lines 346-361: the message
\* of the ClientError is the message of the error envelope, or the status
\* line when the envelope has none.
ErrorMessage(answer) ==
    IF answer.message # "" THEN answer.message
    ELSE StatusLine(answer.status)

\* Mutant of EnvelopeOk: the success flag of the envelope is not read.
EnvelopeOk_Ignored(answer) == TRUE

\* GetStudentByID line 301, GetAllStudents line 368.
EnvelopeOk(answer) == answer.success

\* GetStudentByID, lines 278-309: the result built from the response that
\* makeAuthenticatedRequest returned without error.
StudentResult(answer) ==
    IF IsError(answer.status)
    THEN [err |-> "ClientError", status |-> answer.status,
          details |-> "upstream error body", data |-> NoData]
    ELSE IF answer.body = "malformed"
    THEN [err |-> "failed to unmarshal response", status |-> answer.status,
          details |-> "", data |-> NoData]
    ELSE IF ~EnvelopeOk(answer)
    THEN [err |-> "ClientError", status |-> answer.status,
          details |-> "API returned success=false", data |-> NoData]
    ELSE [err |-> "nil", status |-> answer.status, details |-> "",
          data |-> answer.name]

\* GetAllStudents, lines 345-376: the same handling of the response, the
\* data being the list of the envelope.
ListResult(answer) ==
    IF StudentResult(answer).err = "nil"
    THEN [err |-> "nil", status |-> answer.status, details |-> "",
          data |-> answer.items]
    ELSE StudentResult(answer)

\* The body of the response a, as the call of operation op reads it.
BodyOf(a, op) ==
    IF a.err THEN NoBody
    ELSE [kind |-> a.body, success |-> a.success, message |-> a.message,
          data |-> IF op = "list" THEN a.items ELSE a.name]

\* GetStudentByID, lines 267-270: makeAuthenticatedRequest returned an error.
RequestFailed(status) ==
    [err |-> "request failed", status |-> status, details |-> "",
     data |-> NoData]

\* An error text is the sequence of its pieces in order: the literal parts
\* of the format strings and the numbers printed by %d.
Lit(s) == [kind |-> "lit", s |-> s, n |-> 0]
Num(n) == [kind |-> "num", s |-> "", n |-> n]

\* errors.New(s), or the text of an error of a library.
Text(s) == <<Lit(s)>>

\* fmt.Errorf(prefix + "%w", err): the text of a wrapped error.
Wrap(prefix, text) == <<Lit(prefix)>> \o text

\* fmt.Errorf("invalid student ID: %d", studentID)
InvalidIDText(id) == <<Lit("invalid student ID: "), Num(id)>>

\* ClientError.Error(), lines 38-40.
ClientErrorText(status, message) ==
    <<Lit("API Error "), Num(status), Lit(": "), Lit(message)>>

\* The text of the error GetStudentByID returns for the response that
\* makeAuthenticatedRequest returned without error (lines 278-309).
StudentErrorText(answer) ==
    IF IsError(answer.status)
    THEN ClientErrorText(answer.status, ErrorMessage(answer))
    ELSE IF answer.body = "malformed"
    THEN Wrap("failed to unmarshal response: ", Text(answer.message))
    ELSE IF ~EnvelopeOk(answer)
    THEN ClientErrorText(answer.status, answer.message)
    ELSE NoText

\* The prefix a service method puts before the error of the client:
\* CreateStudentPDF line 58, GetAllStudents line 44.
ServiceWrap(op, text) ==
    CASE op = "report" -> Wrap("failed to fetch student data: ", text)
      [] op = "list"   -> Wrap("failed to fetch students list: ", text)
      [] OTHER         -> text

\* The first decimal digit of a positive number, as %d prints it.
RECURSIVE LeadingDigit(_)
LeadingDigit(n) == IF n < 10 THEN n ELSE LeadingDigit(n \div 10)

\* The literals of the error texts that contain "not found", and those that
\* contain "invalid".
NotFoundLiterals == {"Student not found", "Students not found",
                     " not found"}
InvalidLiterals  == {"invalid student ID: ",
                     "invalid character '<' looking for beginning of value"}

\* strings.Contains(errorStr, "not found")
ContainsNotFound(text) ==
    \E i \in DOMAIN text :
        text[i].kind = "lit" /\ text[i].s \in NotFoundLiterals

\* strings.Contains(errorStr, "invalid")
ContainsInvalid(text) ==
    \E i \in DOMAIN text :
        text[i].kind = "lit" /\ text[i].s \in InvalidLiterals

\* strings.Contains(errorStr, "API Error 4"): the literal of
\* ClientError.Error() followed by a status code that prints with a leading 4.
ContainsAPIError4(text) ==
    \E i \in DOMAIN text :
        /\ text[i] = Lit("API Error ")
        /\ i + 1 \in DOMAIN text
        /\ text[i + 1].kind = "num"
        /\ text[i + 1].n > 0
        /\ LeadingDigit(text[i + 1].n) = 4

\* isClientError, handlers.go lines 170-175.
isClientError(text) ==
    ContainsNotFound(text) \/ ContainsInvalid(text) \/ ContainsAPIError4(text)

\* The characters of a path segment that are decimal digits, and their value.
DigitChars == {"0", "1", "2", "3", "4", "5", "6", "7", "8", "9"}
DigitValue(c) ==
    CASE c = "0" -> 0 [] c = "1" -> 1 [] c = "2" -> 2 [] c = "3" -> 3
      [] c = "4" -> 4 [] c = "5" -> 5 [] c = "6" -> 6 [] c = "7" -> 7
      [] c = "8" -> 8 [] c = "9" -> 9

\* The verb %d of fmt.Sprintf: the decimal digits of an int, after a "-"
\* when it is negative.
DigitChar(d) == CHOOSE c \in DigitChars : DigitValue(c) = d
RECURSIVE Digits(_)
Digits(n) ==
    IF n < 10 THEN <<DigitChar(n)>>
    ELSE Digits(n \div 10) \o <<DigitChar(n % 10)>>
FormatInt(n) == IF n < 0 THEN <<"-">> \o Digits(-n) ELSE Digits(n)

\* The string fmt.Sprintf("RPT-%d-%d", ...) makes of the two numbers of a
\* report id, as the sequence of its characters.
ReportIDString(rid) ==
    <<"R", "P", "T", "-">> \o FormatInt(rid[2]) \o <<"-">>
    \o FormatInt(rid[4])

\* The route pattern {id:[0-9]+} of setupRouter: the segment is a non-empty
\* run of digits.
RouteMatches(seg) ==
    Len(seg) > 0 /\ \A i \in DOMAIN seg : seg[i] \in DigitChars

\* The number a run of digits denotes.
RECURSIVE DecimalValue(_)
DecimalValue(seg) ==
    IF seg = <<>> THEN 0
    ELSE 10 * DecimalValue(SubSeq(seg, 1, Len(seg) - 1))
         + DigitValue(seg[Len(seg)])

\* An int has 64 bits: a run of more digits than the 19 of the largest int
\* is out of range.
MaxIntDigits == 19

\* strconv.Atoi on a segment the route has matched: a syntax error for
\* anything but digits, a range error for a number that does not fit an int.
Atoi(seg) ==
    IF ~RouteMatches(seg) THEN [err |-> "invalid syntax", value |-> 0]
    ELSE IF Len(seg) > MaxIntDigits
    THEN [err |-> "value out of range", value |-> 0]
    ELSE [err |-> "nil", value |-> DecimalValue(seg)]

\* The text of the error strconv.Atoi returns.
AtoiErrorText(err) ==
    <<Lit("strconv.Atoi: parsing "), Lit("id"), Lit(": "), Lit(err)>>

\* writeErrorResponse, lines 145-157: the error field of the body is the
\* text of the error, when there is one.
ErrorField(hasErr, text) == IF hasErr THEN text ELSE NoText

\* Mutant of GeneratedByOf: the parameter is passed as it is.
GeneratedByOf_Raw(query) == query

\* CreateStudentPDF handler, lines 47-50: the default of generated_by.
GeneratedByOf(query) == IF query = "" THEN "API" ELSE query

\* CreateStudentPDF handler, lines 52-65: the status of the response.
ReportStatus(err, text) ==
    IF err = "nil" THEN 201
    ELSE IF isClientError(text) THEN 404
    ELSE 500

\* Mutant of NonEmptyKeys: every entry of the filters is put in the query.
NonEmptyKeys_All(filters) == DOMAIN filters

\* GetAllStudents, lines 319-323: the entries of the filters whose value is
\* not empty.
NonEmptyKeys(filters) == {k \in DOMAIN filters : filters[k] # ""}

\* The orders in which the range loop over the map can visit the keys.
KeyOrders(keys) ==
    {o \in [1..Cardinality(keys) -> keys] :
        \A i, j \in DOMAIN o : i # j => o[i] # o[j]}

\* GetAllStudents, lines 314-327: the endpoints the filters can give, one
\* for each order of the loop; "?" is put before a query that is not empty.
Endpoints(filters) ==
    {[path |-> "/students",
      mark |-> IF Len(o) > 0 THEN "?" ELSE "",
      params |-> [i \in DOMAIN o |-> <<o[i], filters[o[i]]>>]] :
        o \in KeyOrders(NonEmptyKeys(filters))}

\* GetStudents handler, lines 99-113: the filters built from the query
\* parameters of the request, a parameter that is absent reading as "".
HandlerFilters(query) ==
    [k \in {k \in DOMAIN query : query[k] # ""} |-> query[k]]

\* GetStudents handler, lines 116-130: the status of the response.
ListStatus(err, text) ==
    IF err = "nil" THEN 200
    ELSE IF isClientError(text) THEN 404
    ELSE 500

\* Mutant of ServerError: every error status makes the probe fail.
ServerError_AnyError(status) == status >= 400

\* The client's HealthCheck, line 393.
ServerError(status) == status >= 500

\* Mutant of ProbeHeaders: the probe carries the stored tokens.
ProbeHeaders_Stored == StoredTokens

\* HealthCheck, lines 382-386: the probe is sent by a client made for it,
\* which has the base URL and a timeout and none of the tokens.
ProbeHeaders == NoTokens

\* The client's HealthCheck, lines 380-398: the error it returns for the
\* answer to GET / and the text of that error.
ProbeResult(a) ==
    IF a.err
    THEN [err |-> "health check request failed",
          text |-> Wrap("health check request failed: ", Text(a.message))]
    ELSE IF ServerError(a.status)
    THEN [err |-> "server errors",
          text |-> <<Lit("Node.js API is experiencing server errors (status: "),
                     Num(a.status), Lit(")")>>]
    ELSE [err |-> "nil", text |-> NoText]

\* PDFReportService.pdfGenerator: main puts the generator it has built into
\* the service (lines 354-359), so the interface is never nil.
pdfGenerator == "ready"

\* The service's HealthCheck, lines 105-116: the component of the API.
ApiComponent(r) ==
    IF r.err # "nil"
    THEN [Status |-> "unhealthy", Message |-> r.text]
    ELSE [Status |-> "healthy", Message |-> Text("API is responsive")]

\* The service's HealthCheck, lines 119-131: the component of the generator.
GeneratorComponent(generator) ==
    IF generator # "nil"
    THEN [Status |-> "healthy", Message |-> Text("Generator is ready")]
    ELSE [Status |-> "unhealthy",
          Message |-> Text("Generator not initialized")]

\* Mutant of OverallHealthy: the error of the probe does not count.
OverallHealthy_GeneratorOnly(r, generator) == generator # "nil"

\* The service's HealthCheck, lines 100, 106 and 125: Healthy starts true
\* and is cleared by each unhealthy component.
OverallHealthy(r, generator) == r.err = "nil" /\ generator # "nil"

\* The service's HealthCheck, lines 96-140: the status it returns when the
\* probe returned r.
ServiceHealthStatus(r, generator) ==
    [Service |-> "Report Service",
     Healthy |-> OverallHealthy(r, generator),
     Message |-> IF OverallHealthy(r, generator)
                 THEN "All systems operational"
                 ELSE "Some components are unhealthy",
     Components |-> ("nodejs_api" :> ApiComponent(r))
                    @@ ("pdf_generator" :> GeneratorComponent(generator))]

\* Mutant of CleanupReturn: the error of the sweep is swallowed.
CleanupReturn_Swallowed(o) == [err |-> "nil", text |-> NoText]

\* The service's CleanupOldReports, line 144: the return of the sweep is
\* returned as it is.
CleanupReturn(o) == o

\* CleanupReports handler, lines 81-93: the status of the response.
CleanupStatus(err) == IF err # "nil" THEN 500 ELSE 200

\* Mutant of HealthStatus: the response is always 200.
HealthStatus_AlwaysOK(healthy) == 200

\* HealthCheck handler, lines 71-76: the status of the response.
HealthStatus(healthy) == IF healthy THEN 200 ELSE 503

\* os.Stat in getActualFileSize, lines 148-153: the size, 0 when stat fails.
getActualFileSize_Unknown(stat) == IF stat.err THEN -1 ELSE stat.size
getActualFileSize(stat) == IF stat.err THEN 0 ELSE stat.size

\* ------------------------------------------------------------ inputs ---
StudentIDs   == {-5, 0, 1, 42}
GeneratedBys == {"Admin", "API"}
Names        == {"", "John Doe"}
Paths        == {"/reports/a.pdf", "/reports/b.pdf"}
StatOutcomes == {[err |-> TRUE, size |-> 0]}
                \cup {[err |-> FALSE, size |-> n] : n \in {0, 2048}}
\* The id segment of POST /api/v1/reports/student/{id} and the generated_by
\* query parameter of a request.
IDSegments   == {<<"a", "b", "c">>, <<"-", "5">>, <<"0">>, <<"1">>,
                 <<"4", "2">>, [i \in 1..(MaxIntDigits + 1) |-> "9"]}
GeneratedByQueries == {"", "Admin"}
\* The filters of a call of GetAllStudents and the query parameters of a
\* request to GET /api/v1/students.
FilterKeys   == {"name", "className"}
FilterValues == {"", "A"}
FilterMaps   == UNION {[K -> FilterValues] : K \in SUBSET FilterKeys}
ListQueries  == [FilterKeys -> FilterValues]
ItemLists    == {<<>>, <<"John Doe">>}

\* Answers to GET /students: a transport failure, an error status with an
\* envelope with or without a message, a body that is not JSON, or a list
\* envelope.
ListAnswers ==
    {[err |-> TRUE, status |-> NoStatus, success |-> FALSE, name |-> "",
      items |-> <<>>, message |-> "connection refused", body |-> "none"]}
    \cup {[err |-> FALSE, status |-> st, success |-> FALSE, name |-> "",
           items |-> <<>>, message |-> UpstreamMessage(st),
           body |-> "json"] : st \in {401, 403, 500}}
    \cup {[err |-> FALSE, status |-> 404, success |-> FALSE, name |-> "",
           items |-> <<>>, message |-> m, body |-> "json"] :
             m \in {"Students not found", ""}}
    \cup {[err |-> FALSE, status |-> 200, success |-> FALSE, name |-> "",
           items |-> <<>>, message |-> m, body |-> "malformed"] :
             m \in {"unexpected end of JSON input"}}
    \cup {[err |-> FALSE, status |-> 200, success |-> b, name |-> "",
           items |-> l, message |-> "No students available",
           body |-> "json"] : b \in BOOLEAN, l \in ItemLists}

\* Answers to the GET / of the health probe.
HealthAnswers ==
    {[err |-> TRUE, status |-> NoStatus, message |-> "connection refused"]}
    \cup {[err |-> FALSE, status |-> st, message |-> ""] :
            st \in {200, 401, 404, 499, 500, 503}}
\* Returns of pdfGenerator.CleanupOldReports: nil or an error.
SweepOutcomes == {[err |-> "nil", text |-> NoText],
                  [err |-> "cleanup failed", text |-> Text("cleanup failed")],
                  [err |-> "permission denied",
                   text |-> Text("permission denied")]}
GenerateOutcomes == {[err |-> TRUE, path |-> "",
                      message |-> "PDF generation failed"]}
                    \cup {[err |-> FALSE, path |-> p, message |-> ""] :
                            p \in Paths}

\* ---------------------------------------------------------------- Init ---
\* The state of the program after construction.
InitProgram ==
    /\ accessToken = 0 /\ refreshToken = 0 /\ csrfToken = 0
    /\ authMutex = NoWorker
    /\ readers = {}
    /\ issued = 0 /\ loginCount = 0
    /\ seen401 = FALSE /\ failedLogin = FALSE
    /\ pc = [w \in Workers |-> "idle"]
    /\ call = [w \in Workers |-> NoCall]
    /\ authFor = [w \in Workers |-> "none"]
    /\ loginResp = [w \in Workers |-> NoLogin]
    /\ hdr = [w \in Workers |-> NoTokens]
    /\ sends = [w \in Workers |-> 0]
    /\ logins = [w \in Workers |-> 0]
    /\ reauths = [w \in Workers |-> 0]
    /\ rejected = [w \in Workers |-> FALSE]
    /\ statuses = [w \in Workers |-> <<>>]
    /\ body = [w \in Workers |-> NoBody]
    /\ mar = [w \in Workers |-> NoMar]
    /\ ret = [w \in Workers |-> NoRet]
    /\ clientCalls = [w \in Workers |-> 0]
    /\ synthCalls = [w \in Workers |-> 0]
    /\ now = 0
    /\ meta = [w \in Workers |-> NoMeta]
    /\ filePath = [w \in Workers |-> ""]
    /\ out = [w \in Workers |-> NoOut]
    /\ errText = [w \in Workers |-> NoText]
    /\ statCalls = [w \in Workers |-> 0]
    /\ http = [w \in Workers |-> NoHttp]
    /\ probe = [w \in Workers |-> NoProbe]
    /\ health = [w \in Workers |-> NoHealth]
    /\ sweep = [w \in Workers |-> NoSweep]
    /\ listReq = [w \in Workers |-> NoListReq]
    /\ statOut = [w \in Workers |-> NoStat]
    /\ cancelled = [w \in Workers |-> FALSE]
    /\ lastReport = NoReport

\* department-module.js, lines 5-6: the module's variables before its body
\* runs.
InitBackend ==
    /\ rpcNode = "null"
    /\ initialized = FALSE
    /\ loaded = FALSE
    /\ pending = 0
    /\ requests = 0
    /\ reported = <<>>
    /\ returned = <<>>

Init ==
    /\ InitProgram
    /\ InitBackend
    /\ pureIn = NoPureIn
    /\ pureOut = NoPureOut

\* ------------------------------------------------- returns of the client ---
\* The service's GetAllStudents, lines 40-47: the return for the return r of
\* the client's GetAllStudents.
ListReturn(r) ==
    IF r.err # "nil"
    THEN [result |-> NoData, err |-> "failed to fetch students list",
          cause |-> r.err]
    ELSE [result |-> r.data, err |-> "nil", cause |-> "nil"]


\* GetStudentByID returns r to its caller, makeAuthenticatedRequest having
\* returned m (NoMar when it was not called).  A direct caller is done; in
\* CreateStudentPDF, lines 56-63, an error ends the call and an entity goes on
\* to the generator.
FetchReturn(w, m, r, text) ==
    /\ mar' = [mar EXCEPT ![w] = m]
    /\ ret' = [ret EXCEPT ![w] = r]
    /\ errText' = IF r.err = "nil" THEN errText
                  ELSE [errText EXCEPT ![w] = ServiceWrap(call[w].op, text)]
    /\ IF call[w].op = "report" /\ FetchOk(r.err)
       THEN /\ pc' = [pc EXCEPT ![w] = "generate"]
            /\ out' = out
       ELSE /\ pc' = [pc EXCEPT ![w] = "done"]
            /\ out' = IF call[w].op = "report"
                      THEN [out EXCEPT ![w] =
                              [result |-> NoData,
                               err |-> "failed to fetch student data",
                               cause |-> r.err]]
                      ELSE IF call[w].op = "list"
                      THEN [out EXCEPT ![w] = ListReturn(r)]
                      ELSE out

\* authenticate returns err to the caller recorded in authFor:
\* makeAuthenticatedRequest lines 211-213 (ensureAuthenticated) or lines
\* 233-235 (after a 401).
AuthReturn(w, err, text) ==
    /\ failedLogin' = (failedLogin \/ err # "nil")
    /\ hdr' = [hdr EXCEPT ![w] = IF err = "nil" THEN @ ELSE NoTokens]
    /\ loginResp' = [loginResp EXCEPT ![w] = NoLogin]
    /\ IF authFor[w] = "ensure"
       THEN IF EnsureOk(err)
            THEN /\ pc' = [pc EXCEPT ![w] = "snapshot"]
                 /\ UNCHANGED <<mar, ret, out, errText>>
            ELSE FetchReturn(w, [resp |-> NoStatus,
                                 err |-> "authentication failed"],
                             RequestFailed(NoStatus),
                             Wrap("request failed: ",
                                  Wrap("authentication failed: ", text)))
       ELSE IF ReauthOk(err)
            THEN /\ pc' = [pc EXCEPT ![w] = "retry_snapshot"]
                 /\ UNCHANGED <<mar, ret, out, errText>>
            ELSE FetchReturn(w, [resp |-> 401,
                                 err |-> "re-authentication failed"],
                             RequestFailed(401),
                             Wrap("request failed: ",
                                  Wrap("re-authentication failed: ", text)))

\* ------------------------------------------------------------ actions ---
\* The first steps of GetStudentByID(id) (op "fetch") or of
\* CreateStudentPDF(id, by) (op "report"): the validation of the id in the
\* service (lines 51-53) and in the client (lines 255-258).
StartCall(w, op, id, by) ==
    /\ call' = [call EXCEPT ![w] = [op |-> op, id |-> id, by |-> by]]
    /\ IF op = "report" /\ InvalidID(id)
       THEN /\ out' = [out EXCEPT ![w] =
                         [result |-> NoData,
                          err |-> "invalid student ID",
                          cause |-> "nil"]]
            /\ errText' = [errText EXCEPT ![w] = InvalidIDText(id)]
            /\ pc' = [pc EXCEPT ![w] = "done"]
            /\ UNCHANGED <<ret, clientCalls>>
       ELSE /\ clientCalls' = [clientCalls EXCEPT ![w] = @ + 1]
            /\ IF ClientInvalidID(id)
               THEN /\ ret' = [ret EXCEPT ![w] =
                                 [err |-> "invalid student ID",
                                  status |-> NoStatus, details |-> "",
                                  data |-> NoData]]
                    /\ errText' = [errText EXCEPT ![w] =
                                     ServiceWrap(op, InvalidIDText(id))]
                    /\ pc' = [pc EXCEPT ![w] = "done"]
                    /\ out' = IF op = "report"
                              THEN [out EXCEPT ![w] =
                                     [result |-> NoData,
                                      err |-> "failed to fetch student data",
                                      cause |-> "invalid student ID"]]
                              ELSE out
               ELSE /\ pc' = [pc EXCEPT ![w] = "ensure"]
                    /\ UNCHANGED <<ret, out, errText>>
    /\ UNCHANGED <<clientVars, authFor, loginResp, hdr, sends, logins,
                   reauths, rejected, statuses, body, mar, synthCalls, now,
                   pureVars, backendVars, historyVars, meta,
                   filePath, statCalls, statOut>>

\* A worker calls GetStudentByID(id) or CreateStudentPDF(id, by) directly.
Start(w, ops, ids, bys) ==
    /\ pc[w] = "idle"
    /\ \E op \in ops, id \in ids, by \in bys : StartCall(w, op, id, by)
    /\ UNCHANGED handlerVars

\* ensureAuthenticated, lines 198-207: the presence check under RLock.
ensureAuthenticated(w) ==
    /\ pc[w] = "ensure"
    /\ CanRLock
    /\ IF hasTokens
       THEN /\ pc' = [pc EXCEPT ![w] = "snapshot"]
            /\ authFor' = authFor
       ELSE /\ pc' = [pc EXCEPT ![w] = "auth_post"]
            /\ authFor' = [authFor EXCEPT ![w] = "ensure"]
    /\ readers' = RUnlock(RLock(readers, w), w)
    /\ UNCHANGED <<tokenVars, authMutex, issued, loginCount, seen401,
                   failedLogin, call, loginResp, hdr, sends, logins, reauths,
                   rejected, statuses, body, mar, ret, clientCalls, synthCalls,
                   reportVars, pureVars, backendVars, historyVars, handlerVars>>

\* authenticate, lines 108-112: the login request leaves.
SendLogin(w) ==
    /\ pc[w] = "auth_post"
    /\ loginCount' = loginCount + 1
    /\ logins' = [logins EXCEPT ![w] = @ + 1]
    /\ pc' = [pc EXCEPT ![w] = "auth_wait"]
    /\ UNCHANGED <<tokenVars, authMutex, readers, issued, seen401, failedLogin, call,
                   authFor, loginResp, hdr, sends, reauths, rejected,
                   statuses, body, mar, ret, clientCalls, synthCalls,
                   reportVars, pureVars, backendVars, historyVars, handlerVars>>

\* The login request leaves, while the behaviour has login requests left.
PostLogin(w) ==
    /\ loginCount < MaxLogins
    /\ SendLogin(w)

\* authenticate, lines 114-131: the login response arrives; a transport
\* error or an error status ends authenticate before the mutex is touched.
LoginResponse(w) ==
    /\ pc[w] = "auth_wait"
    /\ \E o \in LoginOutcomes(issued + 1) :
        /\ issued' = issued + 1
        /\ IF o.err
           THEN /\ AuthReturn(w, "login request failed",
                              Wrap("login request failed: ",
                                   Text(TransportFailure.message)))
                /\ rejected' = rejected
           ELSE IF IsError(o.status)
           THEN /\ AuthReturn(w, "ClientError",
                              ClientErrorText(o.status,
                                              UpstreamMessage(o.status)))
                /\ rejected' = [rejected EXCEPT ![w] = TRUE]
           ELSE /\ loginResp' = [loginResp EXCEPT ![w] = o]
                /\ pc' = [pc EXCEPT ![w] = "auth_lock"]
                /\ UNCHANGED <<failedLogin, rejected, mar, ret, out, errText,
                               hdr>>
    /\ UNCHANGED <<tokenVars, authMutex, readers, loginCount, seen401, call,
                   authFor, sends, logins, reauths, statuses, body, clientCalls,
                   synthCalls, now, pureVars, backendVars, historyVars, meta, filePath,
                   statCalls,
                   statOut, handlerVars>>

\* authenticate, lines 134-181: take the write lock, extract the three
\* tokens; when one is missing the deferred Unlock runs and an error is
\* returned with nothing stored.
AuthLock(w) ==
    /\ pc[w] = "auth_lock"
    /\ CanLock
    /\ IF AllExtracted(loginResp[w].cookies)
       THEN /\ authMutex' = w
            /\ pc' = [pc EXCEPT ![w] = "write_access"]
            /\ UNCHANGED <<failedLogin, loginResp, mar, ret, out, errText,
                           hdr>>
       ELSE /\ authMutex' = DeferredUnlock(w)
            /\ AuthReturn(w, "failed to extract authentication tokens",
                          Text("failed to extract authentication tokens"))
    /\ UNCHANGED <<tokenVars, readers, issued, loginCount, seen401, call,
                   authFor, sends, logins, reauths, rejected, statuses, body,
                   clientCalls, synthCalls, now, pureVars, backendVars, historyVars, meta,
                   filePath,
                   statCalls, statOut,
                   handlerVars>>

\* authenticate, line 184.
WriteAccess(w) ==
    /\ pc[w] = "write_access"
    /\ accessToken' = loginResp[w].cookies.access
    /\ pc' = [pc EXCEPT ![w] = "write_refresh"]
    /\ UNCHANGED <<refreshToken, csrfToken, authMutex, readers, issued, loginCount,
                   seen401, failedLogin, call, authFor, loginResp, hdr, sends,
                   logins, reauths, rejected, statuses, body, mar, ret,
                   clientCalls,
                   synthCalls, reportVars, pureVars, backendVars, historyVars, handlerVars>>

\* authenticate, line 185.
WriteRefresh(w) ==
    /\ pc[w] = "write_refresh"
    /\ refreshToken' = loginResp[w].cookies.refresh
    /\ pc' = [pc EXCEPT ![w] = "write_csrf"]
    /\ UNCHANGED <<accessToken, csrfToken, authMutex, readers, issued, loginCount,
                   seen401, failedLogin, call, authFor, loginResp, hdr, sends,
                   logins, reauths, rejected, statuses, body, mar, ret,
                   clientCalls,
                   synthCalls, reportVars, pureVars, backendVars, historyVars, handlerVars>>

\* authenticate, lines 186-195: the last store, the deferred Unlock and the
\* nil return.
WriteCsrf(w) ==
    /\ pc[w] = "write_csrf"
    /\ csrfToken' = loginResp[w].cookies.csrf
    /\ authMutex' = NoWorker
    /\ AuthReturn(w, "nil", NoText)
    /\ UNCHANGED <<accessToken, refreshToken, readers, issued, loginCount,
                   seen401, call, authFor, sends, logins, reauths,
                   rejected, statuses, body, clientCalls, synthCalls, now,
                   pureVars, backendVars, historyVars, meta,
                   filePath, statCalls, statOut, handlerVars>>

\* makeAuthenticatedRequest, lines 215-228 and 238-248: snapshot the three
\* tokens under RLock, put them in the headers and send the request.
SendRequest(w) ==
    /\ pc[w] \in {"snapshot", "retry_snapshot"}
    /\ CanRLock
    /\ hdr' = [hdr EXCEPT ![w] = IF pc[w] = "snapshot" THEN StoredTokens
                                 ELSE RetryTokens(w)]
    /\ sends' = [sends EXCEPT ![w] = @ + 1]
    /\ pc' = [pc EXCEPT ![w] = IF pc[w] = "snapshot" THEN "request"
                                ELSE "retry_request"]
    /\ readers' = RUnlock(RLock(readers, w), w)
    /\ UNCHANGED <<tokenVars, authMutex, issued, loginCount, seen401,
                   failedLogin, call, authFor, loginResp, logins, reauths,
                   rejected, statuses, body, mar, ret, clientCalls, synthCalls,
                   reportVars, pureVars, backendVars, historyVars, handlerVars>>

\* Mutant of FirstAttempt: a 401 to the retry starts another round.
FirstAttempt_Loop(w) == pc[w] \in {"request", "retry_request"}

\* makeAuthenticatedRequest, lines 230-251: the retry is straight-line code
\* after the first attempt, so only the first answer can lead to it.
FirstAttempt(w) == pc[w] = "request"

\* The answer to a business request arrives: a 401 to the first attempt
\* starts the reauthentication; any other answer, and any answer to the
\* retry, is returned and handled by GetStudentByID.  The first snapshot
\* stays in the locals accessToken, refreshToken and csrfToken while the
\* reauthentication runs; otherwise the request and its headers are over
\* once it is answered.
Response(w, answers) ==
    /\ pc[w] \in {"request", "retry_request"}
    /\ \E a \in answers :
        /\ statuses' = [statuses EXCEPT ![w] = Append(@, a.status)]
        /\ body' = [body EXCEPT ![w] = BodyOf(a, call[w].op)]
        /\ hdr' = [hdr EXCEPT ![w] = IF Needs401Retry(a) /\ FirstAttempt(w)
                                     THEN @ ELSE NoTokens]
        /\ seen401' = (seen401 \/ (~a.err /\ a.status = 401))
        /\ IF Needs401Retry(a) /\ FirstAttempt(w)
           THEN /\ reauths' = [reauths EXCEPT ![w] = @ + 1]
                /\ authFor' = [authFor EXCEPT ![w] = "reauth"]
                /\ pc' = [pc EXCEPT ![w] = "auth_post"]
                /\ UNCHANGED <<mar, ret, out, errText>>
           ELSE /\ UNCHANGED <<reauths, authFor>>
                /\ IF a.err
                   THEN FetchReturn(w, [resp |-> NoStatus,
                                        err |-> "transport"],
                                    RequestFailed(NoStatus),
                                    Wrap("request failed: ", Text(a.message)))
                   ELSE FetchReturn(w, [resp |-> a.status, err |-> "nil"],
                                    IF call[w].op = "list" THEN ListResult(a)
                                    ELSE StudentResult(a),
                                    StudentErrorText(a))
    /\ UNCHANGED <<tokenVars, authMutex, readers, issued, loginCount, failedLogin,
                   call, loginResp, sends, logins, rejected, clientCalls,
                   synthCalls, now, pureVars, backendVars, historyVars, meta, filePath,
                   statCalls,
                   statOut, handlerVars>>

\* CreateStudentPDF, lines 65-76: read the clock for GeneratedAt and again
\* for the report id, then call the generator.
GenerateStudentReport(w) ==
    /\ pc[w] = "generate"
    /\ \E t1 \in now..MaxClock :
       \E t2 \in t1..MaxClock :
       \E g \in GenerateOutcomes :
        /\ now' = t2
        /\ meta' = [meta EXCEPT ![w] =
                      [GeneratedAt |-> t1, GeneratedBy |-> call[w].by,
                       ReportID |-> ReportID(call[w].id, t2)]]
        /\ synthCalls' = [synthCalls EXCEPT ![w] = @ + 1]
        /\ filePath' = [filePath EXCEPT ![w] = g.path]
        /\ IF ~GenerateOk(g)
           THEN /\ out' = [out EXCEPT ![w] =
                             [result |-> NoData,
                              err |-> "failed to generate PDF report",
                              cause |-> "generator"]]
                /\ errText' = [errText EXCEPT ![w] =
                                 Wrap("failed to generate PDF report: ",
                                      Text(g.message))]
                /\ pc' = [pc EXCEPT ![w] = "done"]
           ELSE /\ UNCHANGED <<out, errText>>
                /\ pc' = [pc EXCEPT ![w] = "stat"]
    /\ UNCHANGED <<clientVars, call, authFor, loginResp, hdr, sends, logins,
                   reauths, rejected, statuses, body, mar, ret, clientCalls,
                   statCalls, statOut, handlerVars, pureVars, backendVars, historyVars>>

\* CreateStudentPDF, lines 78-92: stat the artifact and build the result.
BuildResult(w) ==
    /\ pc[w] = "stat"
    /\ \E st \in StatOutcomes :
        /\ statOut' = [statOut EXCEPT ![w] =
                         [called |-> TRUE, err |-> st.err, size |-> st.size]]
        /\ out' = [out EXCEPT ![w] =
                     [result |->
                        [ReportID |-> meta[w].ReportID,
                         StudentID |-> call[w].id,
                         StudentName |-> FormatName(ret[w].data),
                         FilePath |-> filePath[w],
                         GeneratedAt |-> meta[w].GeneratedAt,
                         GeneratedBy |-> call[w].by,
                         FileSize |-> getActualFileSize(st)],
                      err |-> "nil", cause |-> "nil"]]
    /\ statCalls' = [statCalls EXCEPT ![w] = @ + 1]
    /\ pc' = [pc EXCEPT ![w] = "done"]
    /\ UNCHANGED <<clientVars, call, authFor, loginResp, hdr, sends, logins,
                   reauths, rejected, statuses, body, mar, ret, clientCalls,
                   synthCalls, now, pureVars, backendVars, historyVars, meta, filePath,
                   errText,
                   handlerVars>>

\* The first steps of the client's GetAllStudents(filters), lines 313-335,
\* called by the service's GetAllStudents: the endpoint is built.
StartList(w, filters) ==
    /\ call' = [call EXCEPT ![w] = [op |-> "list", id |-> 0, by |-> ""]]
    /\ \E e \in Endpoints(filters) :
        listReq' = [listReq EXCEPT ![w] =
                      [filters |-> filters, endpoint |-> e]]
    /\ clientCalls' = [clientCalls EXCEPT ![w] = @ + 1]
    /\ pc' = [pc EXCEPT ![w] = "ensure"]
    /\ UNCHANGED <<clientVars, authFor, loginResp, hdr, sends, logins,
                   reauths, rejected, statuses, body, mar, ret, synthCalls,
                   reportVars, pureVars, backendVars, historyVars, probe, health, sweep,
                   cancelled>>

\* A worker calls the service's GetAllStudents(filters) directly.
GetAllStudents(w, filterMaps) ==
    /\ pc[w] = "idle"
    /\ \E f \in filterMaps : StartList(w, f)
    /\ http' = http

\* GET /api/v1/students: the GetStudents handler up to the call of the
\* service, lines 97-116.
HandleGetStudents(w, queries) ==
    /\ pc[w] = "idle"
    /\ \E q \in queries : StartList(w, HandlerFilters(q))
    /\ http' = [http EXCEPT ![w] =
                  [route |-> "list", seg |-> <<>>, query |-> "", status |-> NoStatus,
                   message |-> "", error |-> NoText, data |-> NoData]]

\* GetStudents handler, lines 116-131: the service has returned and the
\* response is written.
RespondList(w) ==
    /\ pc[w] = "done"
    /\ http[w].route = "list"
    /\ http[w].status = NoStatus
    /\ http' = [http EXCEPT ![w] =
                  [@ EXCEPT !.status = ListStatus(out[w].err, errText[w]),
                            !.message =
                                IF out[w].err = "nil"
                                THEN "Students retrieved successfully"
                                ELSE "Failed to fetch students",
                            !.error = ErrorField(out[w].err # "nil",
                                                 errText[w]),
                            !.data = out[w].result]]
    /\ UNCHANGED <<clientVars, workerVars, reportVars, pureVars, backendVars, historyVars,
                   probe,
                   health, sweep,
                   listReq, cancelled>>

\* POST /api/v1/reports/student/{id}: the router (setupRouter) and the
\* CreateStudentPDF handler up to the call of the service, lines 28-52.
HandleCreateStudentPDF(w, segs, queries) ==
    /\ pc[w] = "idle"
    /\ \E seg \in segs, q \in queries :
        IF ~RouteMatches(seg)
        THEN /\ http' = [http EXCEPT ![w] =
                           [route |-> "report", seg |-> seg, query |-> q,
                            status |-> 404,
                            message |-> "404 page not found",
                            error |-> NoText, data |-> NoData]]
             /\ pc' = [pc EXCEPT ![w] = "done"]
             /\ UNCHANGED <<clientVars, call, authFor, loginResp, hdr, sends,
                            logins, reauths, rejected, statuses, body, mar, ret,
                            clientCalls, synthCalls, reportVars, pureVars, backendVars, historyVars, probe,
                            health, sweep, listReq, cancelled>>
        ELSE IF Atoi(seg).err # "nil" \/ Atoi(seg).value <= 0
        THEN /\ http' = [http EXCEPT ![w] =
                           [route |-> "report", seg |-> seg, query |-> q,
                            status |-> 400,
                            message |-> "Invalid student ID format",
                            error |-> ErrorField(Atoi(seg).err # "nil",
                                                 AtoiErrorText(Atoi(seg).err)),
                            data |-> NoData]]
             /\ pc' = [pc EXCEPT ![w] = "done"]
             /\ UNCHANGED <<clientVars, call, authFor, loginResp, hdr, sends,
                            logins, reauths, rejected, statuses, body, mar, ret,
                            clientCalls, synthCalls, reportVars, pureVars, backendVars, historyVars, probe,
                            health, sweep, listReq, cancelled>>
        ELSE /\ http' = [http EXCEPT ![w] =
                           [route |-> "report", seg |-> seg, query |-> q,
                            status |-> NoStatus, message |-> "",
                            error |-> NoText, data |-> NoData]]
             /\ StartCall(w, "report", Atoi(seg).value, GeneratedByOf(q))
             /\ UNCHANGED <<probe, health, sweep, listReq, cancelled>>

\* CreateStudentPDF handler, lines 52-65: the service has returned and the
\* response is written.
RespondReport(w) ==
    /\ pc[w] = "done"
    /\ http[w].route = "report"
    /\ http[w].status = NoStatus
    /\ http' = [http EXCEPT ![w] =
                  [@ EXCEPT !.status = ReportStatus(out[w].err, errText[w]),
                            !.message =
                                IF out[w].err = "nil"
                                THEN "Report generated successfully"
                                ELSE "Failed to generate report",
                            !.error = ErrorField(out[w].err # "nil",
                                                 errText[w]),
                            !.data = out[w].result]]
    /\ UNCHANGED <<clientVars, workerVars, reportVars, pureVars, backendVars, historyVars,
                   probe,
                   health, sweep,
                   listReq, cancelled>>

\* GET /health: the HealthCheck handler calls the service's HealthCheck,
\* whose first call is the client's HealthCheck; it sends GET / with a client
\* of its own, without the tokens (client.go lines 380-388).
HandleHealthCheck(w) ==
    /\ pc[w] = "idle"
    /\ http' = [http EXCEPT ![w] =
                  [route |-> "health", seg |-> <<>>, query |-> "", status |-> NoStatus,
                   message |-> "", error |-> NoText, data |-> NoData]]
    /\ probe' = [probe EXCEPT ![w] = [@ EXCEPT !.sent = @ + 1,
                                               !.hdr = ProbeHeaders]]
    /\ pc' = [pc EXCEPT ![w] = "probe"]
    /\ UNCHANGED <<clientVars, call, authFor, loginResp, hdr, sends, logins,
                   reauths, rejected, statuses, body, mar, ret, clientCalls,
                   synthCalls, reportVars, pureVars, backendVars, historyVars, health,
                   sweep, listReq,
                   cancelled>>

\* The answer to the probe arrives; the client's HealthCheck returns and the
\* service builds its status (report.go lines 105-139).
ProbeResponse(w, answers) ==
    /\ pc[w] = "probe"
    /\ \E a \in answers :
        /\ probe' = [probe EXCEPT ![w] =
                       [sent |-> @.sent, hdr |-> @.hdr, failed |-> a.err,
                        status |-> a.status, err |-> ProbeResult(a).err,
                        text |-> ProbeResult(a).text]]
        /\ health' = [health EXCEPT ![w] =
                        ServiceHealthStatus(ProbeResult(a), pdfGenerator)]
    /\ pc' = [pc EXCEPT ![w] = "done"]
    /\ UNCHANGED <<clientVars, call, authFor, loginResp, hdr, sends, logins,
                   reauths, rejected, statuses, body, mar, ret, clientCalls,
                   synthCalls, reportVars, pureVars, backendVars, historyVars, http,
                   sweep, listReq,
                   cancelled>>

\* HealthCheck handler, lines 71-76: the response is written.
RespondHealth(w) ==
    /\ pc[w] = "done"
    /\ http[w].route = "health"
    /\ http[w].status = NoStatus
    /\ http' = [http EXCEPT ![w] =
                  [@ EXCEPT !.status = HealthStatus(health[w].Healthy),
                            !.message = health[w].Message,
                            !.data = health[w]]]
    /\ UNCHANGED <<clientVars, workerVars, reportVars, pureVars, backendVars, historyVars,
                   probe,
                   health, sweep,
                   listReq, cancelled>>

\* POST /api/v1/reports/cleanup: the CleanupReports handler calls the
\* service's CleanupOldReports, which calls the sweep of the generator and
\* returns what it returned (report.go lines 143-145).
HandleCleanupReports(w, outcomes) ==
    /\ pc[w] = "idle"
    /\ \E o \in outcomes :
        /\ sweep' = [sweep EXCEPT ![w] =
                       [calls |-> @.calls + 1, err |-> o.err,
                        text |-> o.text]]
        /\ out' = [out EXCEPT ![w] =
                     [result |-> NoData, err |-> CleanupReturn(o).err,
                      cause |-> "nil"]]
        /\ errText' = [errText EXCEPT ![w] = CleanupReturn(o).text]
    /\ http' = [http EXCEPT ![w] =
                  [route |-> "cleanup", seg |-> <<>>, query |-> "", status |-> NoStatus,
                   message |-> "", error |-> NoText, data |-> NoData]]
    /\ pc' = [pc EXCEPT ![w] = "done"]
    /\ UNCHANGED <<clientVars, call, authFor, loginResp, hdr, sends, logins,
                   reauths, rejected, statuses, body, mar, ret, clientCalls,
                   synthCalls, now, pureVars, backendVars, historyVars, meta, filePath,
                   statCalls,
                   statOut, probe, health,
                   listReq, cancelled>>

\* CleanupReports handler, lines 81-93: the response is written.
RespondCleanup(w) ==
    /\ pc[w] = "done"
    /\ http[w].route = "cleanup"
    /\ http[w].status = NoStatus
    /\ http' = [http EXCEPT ![w] =
                  [@ EXCEPT !.status = CleanupStatus(out[w].err),
                            !.message =
                                IF out[w].err # "nil"
                                THEN "Failed to cleanup reports"
                                ELSE "Old reports cleaned up successfully",
                            !.error = ErrorField(out[w].err # "nil",
                                                 errText[w])]]
    /\ UNCHANGED <<clientVars, workerVars, reportVars, pureVars, backendVars, historyVars,
                   probe,
                   health, sweep,
                   listReq, cancelled>>

\* The call has returned and, for a request, the response is written; the
\* worker is free for the next one.
Return(w) ==
    /\ pc[w] = "done"
    /\ http[w].route # "none" => http[w].status # NoStatus
    /\ pc' = [pc EXCEPT ![w] = "idle"]
    /\ call' = [call EXCEPT ![w] = NoCall]
    /\ authFor' = [authFor EXCEPT ![w] = "none"]
    /\ loginResp' = [loginResp EXCEPT ![w] = NoLogin]
    /\ hdr' = [hdr EXCEPT ![w] = NoTokens]
    /\ sends' = [sends EXCEPT ![w] = 0]
    /\ logins' = [logins EXCEPT ![w] = 0]
    /\ reauths' = [reauths EXCEPT ![w] = 0]
    /\ rejected' = [rejected EXCEPT ![w] = FALSE]
    /\ statuses' = [statuses EXCEPT ![w] = <<>>]
    /\ body' = [body EXCEPT ![w] = NoBody]
    /\ mar' = [mar EXCEPT ![w] = NoMar]
    /\ ret' = [ret EXCEPT ![w] = NoRet]
    /\ clientCalls' = [clientCalls EXCEPT ![w] = 0]
    /\ synthCalls' = [synthCalls EXCEPT ![w] = 0]
    /\ meta' = [meta EXCEPT ![w] = NoMeta]
    /\ filePath' = [filePath EXCEPT ![w] = ""]
    /\ out' = [out EXCEPT ![w] = NoOut]
    /\ errText' = [errText EXCEPT ![w] = NoText]
    /\ statCalls' = [statCalls EXCEPT ![w] = 0]
    /\ http' = [http EXCEPT ![w] = NoHttp]
    /\ probe' = [probe EXCEPT ![w] = NoProbe]
    /\ health' = [health EXCEPT ![w] = NoHealth]
    /\ sweep' = [sweep EXCEPT ![w] = NoSweep]
    /\ listReq' = [listReq EXCEPT ![w] = NoListReq]
    /\ statOut' = [statOut EXCEPT ![w] = NoStat]
    /\ cancelled' = [cancelled EXCEPT ![w] = FALSE]
    /\ lastReport' = IF call[w].op = "report" /\ out[w].err = "nil"
                     THEN [id |-> call[w].id,
                           second |-> now \div TicksPerSecond,
                           ReportID |-> out[w].result.ReportID]
                     ELSE lastReport
    /\ UNCHANGED <<clientVars, now, pureVars, backendVars>>

\* Mutant of Close: the client forgets its tokens when it is closed.
CloseTokens_Cleared == NoTokens

\* Close, lines 401-405: only a debug line is logged; the token store is
\* what it was.
CloseTokens == StoredTokens

\* main, line 352: the deferred Close runs when the server has shut down and
\* no request is being served; the process ends and no worker runs again.
Close ==
    /\ \A w \in Workers : pc[w] = "idle"
    /\ pc' = [w \in Workers |-> "closed"]
    /\ accessToken' = CloseTokens.access
    /\ refreshToken' = CloseTokens.refresh
    /\ csrfToken' = CloseTokens.csrf
    /\ UNCHANGED <<authMutex, readers, issued, loginCount, seen401, failedLogin, call,
                   authFor, loginResp, hdr, sends, logins, reauths, rejected,
                   statuses, body, mar, ret, out, clientCalls, synthCalls,
                   now, meta, filePath, errText, statCalls, statOut,
                   handlerVars, pureVars, backendVars, historyVars>>

\* ------------------------------------------------------ specifications ---
\* Concurrent workers of the client, each fetching an entity.
ClientAnswers == Answers({200, 401, 404}, {"John Doe"})

Next ==
    \/ \E w \in Workers :
        \/ Start(w, {"fetch"}, {1}, {"API"})
        \/ ensureAuthenticated(w)
        \/ PostLogin(w)
        \/ LoginResponse(w)
        \/ AuthLock(w)
        \/ WriteAccess(w)
        \/ WriteRefresh(w)
        \/ WriteCsrf(w)
        \/ SendRequest(w)
        \/ Response(w, ClientAnswers)
        \/ Return(w)
    \/ Close

Spec == Init /\ [][Next]_vars

\* Concurrent workers, each making one call, every login request being sent:
\* a goroutine that can take a step takes it, and every outbound HTTP call
\* returns.
WorkerStep(w) ==
    \/ ensureAuthenticated(w)
    \/ SendLogin(w)
    \/ LoginResponse(w)
    \/ AuthLock(w)
    \/ WriteAccess(w)
    \/ WriteRefresh(w)
    \/ WriteCsrf(w)
    \/ SendRequest(w)
    \/ Response(w, ClientAnswers)

NextLive ==
    \E w \in Workers :
        \/ Start(w, {"fetch"}, {1}, {"API"})
        \/ WorkerStep(w)

SpecLive ==
    Init /\ [][NextLive]_vars /\ \A w \in Workers : WF_vars(WorkerStep(w))

\* One worker running report and fetch calls over every input.
ReportAnswers == Answers({200, 401, 403, 404, 500}, Names)
                 \cup MalformedAnswers

\* The caller of worker w's operation raises its deadline or cancellation
\* signal while a login or a business request is in flight.  The methods of
\* NodeJSClientInterface (interfaces.go lines 6-10) and
\* makeAuthenticatedRequest (line 210) take no context and the requests are
\* built with c.httpClient.R() alone, so the signal reaches no code of the
\* client: the step records it and changes nothing else.
CallerCancels(w) ==
    /\ pc[w] \in {"auth_wait", "request", "retry_request"}
    /\ ~cancelled[w]
    /\ cancelled' = [cancelled EXCEPT ![w] = TRUE]
    /\ UNCHANGED <<clientVars, workerVars, reportVars, pureVars, backendVars, historyVars,
                   http, probe,
                   health, sweep, listReq>>

NextReport ==
    \/ Start(1, {"fetch", "report"}, StudentIDs, GeneratedBys)
    \/ CallerCancels(1)
    \/ HandleCreateStudentPDF(1, IDSegments, GeneratedByQueries)
    \/ RespondReport(1)
    \/ HandleHealthCheck(1)
    \/ ProbeResponse(1, HealthAnswers)
    \/ RespondHealth(1)
    \/ HandleCleanupReports(1, SweepOutcomes)
    \/ RespondCleanup(1)
    \/ GetAllStudents(1, FilterMaps)
    \/ HandleGetStudents(1, ListQueries)
    \/ RespondList(1)
    \/ ensureAuthenticated(1)
    \/ PostLogin(1)
    \/ LoginResponse(1)
    \/ AuthLock(1)
    \/ WriteAccess(1)
    \/ WriteRefresh(1)
    \/ WriteCsrf(1)
    \/ SendRequest(1)
    \/ Response(1, IF call[1].op = "list" THEN ListAnswers ELSE ReportAnswers)
    \/ GenerateStudentReport(1)
    \/ BuildResult(1)
    \/ Return(1)
    \/ Close

SpecReport == Init /\ [][NextReport]_vars

\* ----------------------------------------------------- pure functions ---
\* The functions below are applied to an input drawn from PureInputs; the
\* state of the service takes no part in them.

\* models.SafeString, student.go lines 85-90.
SafeString(ptr, defaultValue) ==
    IF ~ptr.nil /\ ptr.val # "" THEN ptr.val ELSE defaultValue

\* Mutant of SafeInt: a pointer to 0 is taken for no value.
SafeInt_ZeroIsNil(ptr, defaultValue) ==
    IF ~ptr.nil /\ ptr.val # 0 THEN ptr.val ELSE defaultValue

\* models.SafeInt, student.go lines 93-98.
SafeInt(ptr, defaultValue) ==
    IF ~ptr.nil THEN ptr.val ELSE defaultValue

\* NewNodeJSClient, line 66: the condition of the warning.
CredentialsMissing(cfg) ==
    cfg.ServiceUsername = "" \/ cfg.ServicePassword = ""

\* NewNodeJSClient, lines 58-91: a nil config or a nil logger is an error;
\* missing credentials are logged as a warning and the client is returned.
NewNodeJSClient(cfg) ==
    IF cfg.nil
    THEN [client |-> "nil", err |-> "config cannot be nil", warned |-> FALSE]
    ELSE IF ~cfg.logger
    THEN [client |-> "nil", err |-> "logger cannot be nil", warned |-> FALSE]
    ELSE [client |-> "client", err |-> "nil",
          warned |-> CredentialsMissing(cfg)]

\* authenticate, lines 100-103: the body of the login request.
LoginRequest(cfg) ==
    [sent |-> TRUE, Username |-> cfg.ServiceUsername,
     Password |-> cfg.ServicePassword]

\* A header line is the sequence of its pieces: the name with its "=", the
\* pieces of the value, the ";" delimiters and the attributes.
\* strings.HasPrefix(cookieHeader, name), lines 148, 158 and 167.
HasPrefix(header, name) == header # <<>> /\ Head(header) = name

\* strings.Split(cookieHeader, ";")[0], line 150: the header up to its first
\* ";", the whole header when it has none.
FirstPart(header) ==
    LET semis == {i \in DOMAIN header : header[i] = ";"}
    IN  IF semis = {} THEN header
        ELSE SubSeq(header, 1,
                    (CHOOSE i \in semis : \A j \in semis : i <= j) - 1)

\* strings.TrimPrefix(parts[0], name), line 152.
TrimPrefix(part, name) == IF HasPrefix(part, name) THEN Tail(part) ELSE part

\* Mutant of NonEmptyPart: every token part is assigned.
NonEmptyPart_Any(tokenPart, name) == TRUE

\* authenticate, lines 153, 162 and 171: the token part is assigned when it
\* is neither empty nor the name itself.
NonEmptyPart(tokenPart, name) == tokenPart # <<>> /\ tokenPart # <<name>>

\* authenticate, lines 148-176: the body of the loop for one header.
ScanHeader(acc, header) ==
    IF HasPrefix(header, "accessToken=")
    THEN LET tokenPart == TrimPrefix(FirstPart(header), "accessToken=")
         IN  IF NonEmptyPart(tokenPart, "accessToken=")
             THEN [acc EXCEPT !.access = tokenPart] ELSE acc
    ELSE IF HasPrefix(header, "refreshToken=")
    THEN LET tokenPart == TrimPrefix(FirstPart(header), "refreshToken=")
         IN  IF NonEmptyPart(tokenPart, "refreshToken=")
             THEN [acc EXCEPT !.refresh = tokenPart] ELSE acc
    ELSE IF HasPrefix(header, "csrfToken=")
    THEN LET tokenPart == TrimPrefix(FirstPart(header), "csrfToken=")
         IN  IF NonEmptyPart(tokenPart, "csrfToken=")
             THEN [acc EXCEPT !.csrf = tokenPart] ELSE acc
    ELSE acc

\* authenticate, lines 138-176: the loop over the Set-Cookie headers of the
\* login response, in their order.
RECURSIVE ExtractCookies(_, _)
ExtractCookies(headers, acc) ==
    IF headers = <<>> THEN acc
    ELSE ExtractCookies(Tail(headers), ScanHeader(acc, Head(headers)))

\* authenticate, line 178: the login goes on when none of the three is empty.
TokensExtracted(c) ==
    ~(c.access = <<>> \/ c.refresh = <<>> \/ c.csrf = <<>>)

\* The Set-Cookie header lines of a login response.
HeaderLines ==
    {<<"accessToken=", "a1", ";", " Path=/", ";", " HttpOnly">>,
     <<"accessToken=", "a2">>,
     <<"accessToken=", ";", " Max-Age=0">>,
     <<"accessToken=", "accessToken=">>,
     <<"refreshToken=", "r1", ";", " HttpOnly">>,
     <<"refreshToken=">>,
     <<"csrfToken=", "c1">>,
     <<"csrfToken=", ";">>,
     <<"session=", "accessToken=", "a3">>}
HeaderLists == UNION {[1..n -> HeaderLines] : n \in 0..MaxHeaders}

\* Pointers to strings and to ints, and the defaults passed with them.
StringPtrs     == {NilString}
                  \cup {[nil |-> FALSE, val |-> v] : v \in {"", "John"}}
StringDefaults == {"", "N/A"}
IntPtrs        == {NilInt} \cup {[nil |-> FALSE, val |-> v] : v \in {0, 7}}
IntDefaults    == {0, -1}
\* The configurations NewNodeJSClient is called with; logger is TRUE when
\* the logger passed with the configuration is not nil.
Configs ==
    {NoConfig}
    \cup {[nil |-> FALSE, ServiceUsername |-> u, ServicePassword |-> p,
           logger |-> l] :
            u \in {"", "svc@school"}, p \in {"", "secret"}, l \in BOOLEAN}

PureInputs ==
    {[NoPureIn EXCEPT !.fn = "SafeString", !.sptr = ptr, !.sdef = d] :
        ptr \in StringPtrs, d \in StringDefaults}
    \cup {[NoPureIn EXCEPT !.fn = "SafeInt", !.iptr = ptr, !.idef = d] :
            ptr \in IntPtrs, d \in IntDefaults}
    \cup {[NoPureIn EXCEPT !.fn = "NewNodeJSClient", !.cfg = c] :
            c \in Configs}
    \cup {[NoPureIn EXCEPT !.fn = "authenticate", !.headers = hs] :
            hs \in HeaderLists}

InitPure ==
    /\ InitProgram
    /\ InitBackend
    /\ pureIn \in PureInputs
    /\ pureOut = NoPureOut

programVars == <<clientVars, workerVars, reportVars, handlerVars, historyVars>>

CallSafeString ==
    /\ pureIn.fn = "SafeString"
    /\ ~pureOut.done
    /\ pureOut' = [pureOut EXCEPT !.done = TRUE,
                                  !.s = SafeString(pureIn.sptr, pureIn.sdef)]
    /\ UNCHANGED <<programVars, backendVars, pureIn>>

CallSafeInt ==
    /\ pureIn.fn = "SafeInt"
    /\ ~pureOut.done
    /\ pureOut' = [pureOut EXCEPT !.done = TRUE,
                                  !.n = SafeInt(pureIn.iptr, pureIn.idef)]
    /\ UNCHANGED <<programVars, backendVars, pureIn>>

\* main, lines 348-351: the client is constructed at startup.
CallNewNodeJSClient ==
    /\ pureIn.fn = "NewNodeJSClient"
    /\ ~pureOut.done
    /\ pureOut' = [pureOut EXCEPT
                      !.done = TRUE,
                      !.client = NewNodeJSClient(pureIn.cfg).client,
                      !.err = NewNodeJSClient(pureIn.cfg).err,
                      !.warned = NewNodeJSClient(pureIn.cfg).warned]
    /\ UNCHANGED <<programVars, backendVars, pureIn>>

\* authenticate, lines 100-112: the first request served by the client that
\* was returned posts a login with the credentials of its configuration.
FirstLogin ==
    /\ pureIn.fn = "NewNodeJSClient"
    /\ pureOut.done
    /\ pureOut.client = "client"
    /\ ~pureOut.login.sent
    /\ pureOut' = [pureOut EXCEPT !.login = LoginRequest(pureIn.cfg)]
    /\ UNCHANGED <<programVars, backendVars, pureIn>>

\* authenticate, lines 138-181: the cookies of a successful login response
\* are parsed and the outcome of the login is decided.
ParseSetCookie ==
    /\ pureIn.fn = "authenticate"
    /\ ~pureOut.done
    /\ LET c == ExtractCookies(pureIn.headers, NoCookies)
       IN  pureOut' = [pureOut EXCEPT
                         !.done = TRUE,
                         !.cookies = c,
                         !.err = IF TokensExtracted(c) THEN "nil"
                                 ELSE "failed to extract authentication tokens"]
    /\ UNCHANGED <<programVars, backendVars, pureIn>>

NextPure ==
    \/ ParseSetCookie
    \/ CallSafeString
    \/ CallSafeInt
    \/ CallNewNodeJSClient
    \/ FirstLogin

SpecPure == InitPure /\ [][NextPure]_vars

\* --------------------------------------------------------------- claims ---
\* A worker is inside authenticate from its POST /auth/login to the return.
InLogin(w) == pc[w] \in {"auth_wait", "auth_lock", "write_access",
                         "write_refresh", "write_csrf"}

\* All three tokens are non-empty and come from one login response.
OneResponse(t) == t.access # 0 /\ t.access = t.refresh /\ t.refresh = t.csrf

\* A worker has a request in flight with its snapshot in the headers.
InFlight(w) == pc[w] \in {"request", "retry_request"}

\* C1: from an empty store and with no login failing and no 401 received,
\* concurrent callers cause exactly one login request in total, and all the
\* callers that went on to send carry the same complete token set in their
\* requests.
C1_SingleLogin ==
    (~seen401 /\ ~failedLogin) =>
        /\ loginCount <= 1
        /\ \A v, w \in Workers :
             (InFlight(v) /\ InFlight(w)) =>
                 (OneResponse(hdr[v]) /\ hdr[v] = hdr[w])

\* C2: at most one login operation (POST plus token write) is in progress
\* at any moment, first logins and reauthentications together.
C2_OneLoginInProgress ==
    Cardinality({w \in Workers : InLogin(w)}) <= 1

C4_FailedLoginLeavesStore ==
    /\ [](\A w \in Workers :
            pc[w] \in {"write_access", "write_refresh", "write_csrf"} =>
                (loginResp[w].cookies.access # 0
                 /\ loginResp[w].cookies.refresh # 0
                 /\ loginResp[w].cookies.csrf # 0))
    /\ [][\A w \in Workers :
            (/\ pc[w] \in {"auth_post", "auth_wait", "auth_lock"}
             /\ pc'[w] # pc[w]
             /\ pc'[w] \notin {"auth_wait", "auth_lock", "write_access"})
            => (/\ accessToken' = accessToken
                /\ refreshToken' = refreshToken
                /\ csrfToken' = csrfToken
                /\ pc'[w] = "done"
                /\ mar'[w].err \in {"authentication failed",
                                    "re-authentication failed"}
                /\ ret'[w].err = "request failed"
                /\ ret'[w].data = NoData)]_vars

\* C4 witness: a reauthentication has failed and the store still holds the
\* complete token set of the earlier login.
C4_Witness ==
    \E w \in Workers :
        /\ pc[w] = "done" /\ mar[w].err = "re-authentication failed"
        /\ OneResponse(StoredTokens)

\* C5: within one call a 401 to the first attempt leads to exactly one
\* reauthentication and, when that succeeds, exactly one retry; the request
\* is sent at most twice and reauthentication happens at most once.
First401(w) == Len(statuses[w]) >= 1 /\ statuses[w][1] = 401

C5_SingleRetry ==
    \A w \in Workers :
        /\ sends[w] <= 2 /\ reauths[w] <= 1 /\ logins[w] <= 2
        /\ Len(statuses[w]) <= sends[w]
        /\ First401(w) <=> reauths[w] = 1
        /\ sends[w] = 2 => First401(w)
        /\ (pc[w] = "done" /\ First401(w)
              /\ mar[w].err # "re-authentication failed") => sends[w] = 2

\* C5 witness: a call has ended after a 401, a reauthentication and a retry
\* that was answered 401 again.
C5_Witness ==
    \E w \in Workers :
        pc[w] = "done" /\ statuses[w] = <<401, 401>> /\ sends[w] = 2

\* C6 as stated: when the retry is answered 401 too, makeAuthenticatedRequest
\* returns an authentication failure instead of a response, and the fetch
\* built on it returns an error and no data.
C6_RetryAuthFailure ==
    \A w \in Workers :
        (pc[w] = "done" /\ statuses[w] = <<401, 401>>) =>
            /\ mar[w].err # "nil"
            /\ ret[w].err # "nil" /\ ret[w].data = NoData

\* C6 amended: when the retry is answered 401 too, makeAuthenticatedRequest
\* returns that 401 response with a nil error; GetStudentByID turns it into
\* a ClientError with status 401 and returns no data; the call has sent the
\* request twice and reauthenticated once, and nothing more.
C6_Retry401Returned ==
    \A w \in Workers :
        (pc[w] = "done" /\ statuses[w] = <<401, 401>>) =>
            /\ mar[w] = [resp |-> 401, err |-> "nil"]
            /\ ret[w] = [err |-> "ClientError", status |-> 401,
                         details |-> "upstream error body", data |-> NoData]
            /\ sends[w] = 2 /\ reauths[w] = 1 /\ logins[w] <= 2

\* C6 witness: a call that logged in, was answered 401, reauthenticated and
\* was answered 401 again has returned.
C6_Witness ==
    \E w \in Workers :
        /\ pc[w] = "done" /\ statuses[w] = <<401, 401>>
        /\ logins[w] = 2 /\ ret[w].err = "ClientError"

C8_RejectedLoginNotRetried ==
    \A w \in Workers :
        rejected[w] =>
            /\ pc[w] = "done"
            /\ ret[w].err = "request failed" /\ ret[w].data = NoData
            /\ authFor[w] = "ensure" =>
                  (/\ mar[w].err = "authentication failed"
                   /\ logins[w] = 1 /\ sends[w] = 0 /\ reauths[w] = 0)
            /\ authFor[w] = "reauth" =>
                  (/\ mar[w].err = "re-authentication failed"
                   /\ logins[w] <= 2 /\ sends[w] = 1 /\ reauths[w] = 1)

\* C8 witness: the reauthentication of a call that had logged in itself was
\* rejected.
C8_Witness ==
    \E w \in Workers :
        rejected[w] /\ authFor[w] = "reauth" /\ logins[w] = 2

\* C9: CreateStudentPDF and GetStudentByID called with id <= 0 end at once
\* with an invalid-argument error and no result, without login, upstream
\* request or generator call; CreateStudentPDF does not call the client.
C9_InvalidIDRejected ==
    \A w \in Workers :
        (call[w].op \in {"fetch", "report"} /\ call[w].id <= 0) =>
            /\ pc[w] = "done"
            /\ logins[w] = 0 /\ sends[w] = 0 /\ synthCalls[w] = 0
            /\ mar[w] = NoMar
            /\ call[w].op = "report" =>
                  (/\ out[w].err = "invalid student ID"
                   /\ out[w].result = NoData
                   /\ clientCalls[w] = 0)
            /\ call[w].op = "fetch" =>
                  (/\ ret[w].err = "invalid student ID"
                   /\ ret[w].data = NoData)

\* C9 witness: CreateStudentPDF(0, by) has returned after the client had
\* logged in earlier.
C9_Witness ==
    \E w \in Workers :
        /\ pc[w] = "done" /\ call[w].op = "report" /\ call[w].id = 0
        /\ hasTokens

\* C10: for id > 0, when fetch and generation succeed CreateStudentPDF
\* returns a result with the requested id, the entity's name ("N/A" when
\* empty), the generatedBy argument, the generator's path, the report id
\* "RPT-<id>-<epoch seconds>" and a size >= 0.
C10_ReportResult ==
    \A w \in Workers :
        (/\ pc[w] = "done" /\ call[w].op = "report"
         /\ ret[w].err = "nil" /\ out[w].cause # "generator") =>
            /\ call[w].id > 0
            /\ out[w].err = "nil"
            /\ out[w].result.StudentID = call[w].id
            /\ out[w].result.StudentName =
                  (IF ret[w].data = "" THEN "N/A" ELSE ret[w].data)
            /\ out[w].result.GeneratedBy = call[w].by
            /\ out[w].result.FilePath = filePath[w]
            /\ filePath[w] \in Paths
            /\ out[w].result.ReportID =
                  <<"RPT-", call[w].id, "-", now \div TicksPerSecond>>
            /\ out[w].result.FileSize >= 0

\* C10 witness: a report for entity 42 with an empty name has been returned
\* in a later second than the epoch.
C10_Witness ==
    \E w \in Workers :
        /\ pc[w] = "done" /\ call[w].op = "report" /\ call[w].id = 42
        /\ out[w].err = "nil" /\ out[w].result.StudentName = "N/A"
        /\ out[w].result.ReportID[4] > 0

\* The report request of worker w has been answered by the handler.
ReportAnswered(w) ==
    /\ http[w].route = "report"
    /\ RouteMatches(http[w].seg)
    /\ http[w].status # NoStatus

\* The last answer of the upstream to the call of worker w was 404.
UpstreamNotFound(w) ==
    /\ statuses[w] # <<>>
    /\ statuses[w][Len(statuses[w])] = 404

\* C11: the report endpoint answers 201 exactly when CreateStudentPDF
\* succeeded, 400 exactly when the id is not a positive integer, 404 exactly
\* when the upstream reported the entity as not found, and 500 for every
\* other failure.
C11_ReportStatus ==
    \A w \in Workers :
        ReportAnswered(w) =>
            /\ http[w].status \in {201, 400, 404, 500}
            /\ http[w].status = 201 <=> out[w].err = "nil"
            /\ http[w].status = 400 <=>
                   (Atoi(http[w].seg).err # "nil"
                    \/ Atoi(http[w].seg).value <= 0)
            /\ http[w].status = 404 <=> UpstreamNotFound(w)

\* C12: CreateStudentPDF goes Idle -> FetchingEntity -> (Synthesizing ->
\* Done | Failed) | Failed: the generator is called only after the fetch
\* returned an entity, a failed fetch ends the call with an error, a nil
\* result and no generator call, the client fetch and the generator are each
\* called at most once per call, and nothing is called after the call ended.
C12_ReportSteps ==
    /\ [](\A w \in Workers :
            call[w].op = "report" =>
                /\ clientCalls[w] <= 1 /\ synthCalls[w] <= 1
                /\ pc[w] \in {"generate", "stat"} =>
                       clientCalls[w] = 1 /\ ret[w].err = "nil"
                /\ synthCalls[w] = 1 =>
                       /\ clientCalls[w] = 1
                       /\ ret[w].err = "nil" /\ ret[w].data # NoData
                /\ ret[w].err \notin {"unset", "nil"} =>
                       /\ pc[w] = "done"
                       /\ synthCalls[w] = 0
                       /\ out[w].err = "failed to fetch student data"
                       /\ out[w].result = NoData)
    /\ [][\A w \in Workers :
            pc[w] = "done" =>
                /\ clientCalls'[w] <= clientCalls[w]
                /\ synthCalls'[w] <= synthCalls[w]
                /\ sends'[w] <= sends[w]]_vars

\* C12 witness: a report call is Done after one fetch and one generator
\* call.
C12_Witness ==
    \E w \in Workers :
        /\ call[w].op = "report" /\ pc[w] = "done"
        /\ clientCalls[w] = 1 /\ synthCalls[w] = 1
        /\ out[w].err = "nil" /\ out[w].result.StudentID = call[w].id

\* The generator was called by the report call of worker w and returned an
\* error (and, with it, no path).
GeneratorFailed(w) ==
    call[w].op = "report" /\ synthCalls[w] = 1 /\ filePath[w] = ""

\* C13: when the fetch succeeds and the generator returns an error,
\* CreateStudentPDF ends with an error that wraps the generator's error and
\* with a nil result, and the artifact is not stat-ed.
C13_SynthesisFailure ==
    \A w \in Workers :
        GeneratorFailed(w) =>
            /\ pc[w] = "done"
            /\ ret[w].err = "nil"
            /\ out[w] = [result |-> NoData,
                         err |-> "failed to generate PDF report",
                         cause |-> "generator"]
            /\ errText[w] = Wrap("failed to generate PDF report: ",
                                 Text("PDF generation failed"))
            /\ statCalls[w] = 0

\* C13 witness: a report call whose fetch was answered 200 has ended after
\* the generator failed.
C13_Witness ==
    \E w \in Workers :
        /\ GeneratorFailed(w) /\ pc[w] = "done"
        /\ statuses[w] = <<200>> /\ clientCalls[w] = 1
        /\ out[w].err = "failed to generate PDF report"

\* The service's HealthCheck of worker w has returned.
HealthReturned(w) == http[w].route = "health" /\ pc[w] = "done"

\* C14: HealthCheck always returns a component map with an entry for the
\* upstream API and one for the generator; Healthy is true exactly when
\* every component is healthy, false whenever the probe returned an error,
\* and the message is "All systems operational" exactly when Healthy.
C14_HealthStatus ==
    \A w \in Workers :
        HealthReturned(w) =>
            /\ DOMAIN health[w].Components = {"nodejs_api", "pdf_generator"}
            /\ health[w].Healthy <=>
                   \A c \in DOMAIN health[w].Components :
                       health[w].Components[c].Status = "healthy"
            /\ \A c \in DOMAIN health[w].Components :
                   health[w].Components[c].Status \in {"healthy", "unhealthy"}
            /\ probe[w].err # "nil" => ~health[w].Healthy
            /\ health[w].Message = "All systems operational" <=>
                   health[w].Healthy

\* C14 witness: HealthCheck has returned unhealthy after the probe returned
\* an error.
C14_Witness ==
    \E w \in Workers :
        /\ HealthReturned(w)
        /\ probe[w].sent = 1 /\ probe[w].err # "nil"
        /\ ~health[w].Healthy
        /\ health[w].Components["nodejs_api"].Status = "unhealthy"
        /\ health[w].Components["pdf_generator"].Status = "healthy"

\* C15: the client's HealthCheck reports the upstream unhealthy exactly when
\* the probe request failed at the transport or was answered with a status
\* of 500 or more; every other answer, 401 and 404 included, is healthy.
C15_ProbeUnhealthy ==
    \A w \in Workers :
        HealthReturned(w) =>
            /\ probe[w].sent = 1
            /\ probe[w].err # "nil" <=>
                   (probe[w].failed \/ probe[w].status >= 500)
            /\ health[w].Components["nodejs_api"].Status = "unhealthy" <=>
                   (probe[w].failed \/ probe[w].status >= 500)

\* C15 witness: the probe was answered 401 and the client's HealthCheck
\* returned nil.
C15_Witness ==
    \E w \in Workers :
        /\ HealthReturned(w)
        /\ ~probe[w].failed /\ probe[w].status = 401
        /\ probe[w].err = "nil"
        /\ health[w].Healthy

\* The service's CleanupOldReports of worker w has returned.
CleanupReturned(w) == http[w].route = "cleanup" /\ pc[w] = "done"

\* C16: CleanupOldReports calls the sweep of the generator exactly once and
\* returns exactly what the sweep returned, nil or the same error unwrapped,
\* and never calls the client.
C16_CleanupSweep ==
    \A w \in Workers :
        CleanupReturned(w) =>
            /\ sweep[w].calls = 1
            /\ out[w].err = sweep[w].err
            /\ errText[w] = sweep[w].text
            /\ clientCalls[w] = 0 /\ sends[w] = 0 /\ logins[w] = 0
            /\ probe[w].sent = 0 /\ synthCalls[w] = 0

\* C16 witness: the sweep returned an error and CleanupOldReports returned
\* it.
C16_Witness ==
    \E w \in Workers :
        /\ CleanupReturned(w)
        /\ sweep[w].calls = 1 /\ sweep[w].err = "cleanup failed"
        /\ out[w].err = "cleanup failed"
        /\ errText[w] = Text("cleanup failed")

\* The entries of the query of endpoint e that are the pair <<k, v>>.
QueryEntries(e, k, v) == {i \in DOMAIN e.params : e.params[i] = <<k, v>>}

\* C17: the query of the list request contains exactly the entries of the
\* filters whose value is not empty, each once; with no such entry the
\* request goes to the bare list path without a query string; and an empty
\* data list of the upstream is a success.
C17_ListQuery ==
    \A w \in Workers :
        call[w].op = "list" =>
            LET f == listReq[w].filters
                e == listReq[w].endpoint
            IN  /\ e.path = "/students"
                /\ \A k \in DOMAIN f :
                       f[k] # "" => Cardinality(QueryEntries(e, k, f[k])) = 1
                /\ \A i \in DOMAIN e.params :
                       /\ e.params[i][1] \in DOMAIN f
                       /\ e.params[i][2] # ""
                       /\ e.params[i][2] = f[e.params[i][1]]
                /\ Len(e.params) = Cardinality({k \in DOMAIN f : f[k] # ""})
                /\ e.mark = "?" <=> e.params # <<>>
                /\ e.mark \in {"", "?"}
                /\ (/\ pc[w] = "done"
                    /\ mar[w] = [resp |-> 200, err |-> "nil"]
                    /\ body[w].kind = "json" /\ body[w].success
                    /\ body[w].data = <<>>)
                   => /\ ret[w].err = "nil" /\ ret[w].data = <<>>
                      /\ out[w].err = "nil" /\ out[w].result = <<>>

\* C17 witness: GetAllStudents was called with one empty and one non-empty
\* filter and returned the empty list of the upstream.
C17_Witness ==
    \E w \in Workers :
        /\ call[w].op = "list" /\ pc[w] = "done"
        /\ listReq[w].filters = [name |-> "", className |-> "A"]
        /\ listReq[w].endpoint.params = <<<<"className", "A">>>>
        /\ body[w].kind = "json" /\ body[w].success
        /\ body[w].data = <<>>
        /\ ret[w].err = "nil"

\* C18: when the upstream answers the list request with a not-found error
\* envelope, the client's GetAllStudents fails with a ClientError whose
\* status code and message are the upstream's, and the service's
\* GetAllStudents returns that error wrapped, the message still in its text,
\* and a nil list.
C18_ListNotFound ==
    \A w \in Workers :
        (/\ call[w].op = "list" /\ pc[w] = "done"
         /\ mar[w] = [resp |-> 404, err |-> "nil"])
        => /\ ret[w] = [err |-> "ClientError", status |-> 404,
                        details |-> "upstream error body", data |-> NoData]
           /\ errText[w] =
                  Wrap("failed to fetch students list: ",
                       ClientErrorText(404,
                           IF body[w].message # "" THEN body[w].message
                           ELSE "404 Not Found"))
           /\ out[w] = [result |-> NoData,
                        err |-> "failed to fetch students list",
                        cause |-> "ClientError"]

\* C18 witness: the list request was answered 404 with the message
\* "Students not found" and the service's GetAllStudents has returned.
C18_Witness ==
    \E w \in Workers :
        /\ call[w].op = "list" /\ pc[w] = "done"
        /\ statuses[w] = <<404>>
        /\ body[w].message = "Students not found"
        /\ ret[w].err = "ClientError" /\ ret[w].status = 404
        /\ out[w].err = "failed to fetch students list"

\* C19: a response with a successful status whose envelope has
\* success=false makes GetStudentByID and GetAllStudents fail with a
\* ClientError that carries the message of the envelope; data is returned
\* only when the status is successful and success is true.
C19_EnvelopeFailure ==
    \A w \in Workers :
        (call[w].op \in {"fetch", "report", "list"}
         /\ ret[w].err # "unset") =>
            /\ (/\ mar[w].err = "nil" /\ mar[w].resp \in 200..299
                /\ body[w].kind = "json" /\ ~body[w].success)
               => /\ ret[w] = [err |-> "ClientError",
                               status |-> mar[w].resp,
                               details |-> "API returned success=false",
                               data |-> NoData]
                  /\ errText[w] =
                         ServiceWrap(call[w].op,
                             ClientErrorText(mar[w].resp, body[w].message))
            /\ ret[w].err = "nil"
               => /\ mar[w].err = "nil" /\ mar[w].resp \in 200..299
                  /\ body[w].kind = "json" /\ body[w].success
                  /\ ret[w].data = body[w].data
            /\ ret[w].err # "nil" => ret[w].data = NoData

\* C19 witness: the list request was answered 200 with success=false and
\* GetAllStudents has failed with a ClientError.
C19_Witness ==
    \E w \in Workers :
        /\ call[w].op = "list" /\ pc[w] = "done"
        /\ mar[w] = [resp |-> 200, err |-> "nil"]
        /\ body[w].kind = "json" /\ ~body[w].success
        /\ ret[w].err = "ClientError"
        /\ ret[w].details = "API returned success=false"

\* The list request of worker w has been answered by the handler.
ListAnswered(w) == http[w].route = "list" /\ http[w].status # NoStatus

\* C20: the list endpoint answers 200 when GetAllStudents succeeds, 404 only
\* when the upstream reported that none were found, and 500 for every other
\* failure.
C20_ListStatus ==
    \A w \in Workers :
        ListAnswered(w) =>
            /\ http[w].status \in {200, 404, 500}
            /\ http[w].status = 200 <=> out[w].err = "nil"
            /\ http[w].status = 404 => UpstreamNotFound(w)
            /\ (out[w].err # "nil" /\ ~UpstreamNotFound(w)) =>
                   http[w].status = 500

\* The health request of worker w has been answered by the handler.
HealthAnswered(w) == http[w].route = "health" /\ http[w].status # NoStatus

\* C21: the health endpoint answers 200 exactly when HealthCheck reports
\* Healthy and 503 otherwise, and in both cases the body is the whole status
\* with its component map.
C21_HealthEndpoint ==
    \A w \in Workers :
        HealthAnswered(w) =>
            /\ http[w].status \in {200, 503}
            /\ http[w].status = 200 <=> health[w].Healthy
            /\ http[w].status = 503 <=> ~health[w].Healthy
            /\ http[w].data = health[w]
            /\ DOMAIN http[w].data.Components = {"nodejs_api", "pdf_generator"}
            /\ http[w].data.Service = "Report Service"

\* C21 witness: the health endpoint has answered 503 with the status of an
\* unhealthy upstream.
C21_Witness ==
    \E w \in Workers :
        /\ HealthAnswered(w)
        /\ http[w].status = 503
        /\ ~http[w].data.Healthy
        /\ http[w].data.Components["nodejs_api"].Status = "unhealthy"

\* Worker w is inside a call that has not returned.
Calling(w) == pc[w] \notin {"idle", "done"}

\* C22: provided every outbound HTTP call returns, every call of
\* makeAuthenticatedRequest returns under any interleaving of the workers:
\* no worker waits for ever on authMutex, no state is reached where a worker
\* is inside a call and no step is possible, and a transport failure is
\* returned to the caller as an error without a further attempt.
C22_AlwaysReturns ==
    /\ \A w \in Workers : Calling(w) ~> pc[w] = "done"
    /\ []((\E w \in Workers : Calling(w)) => ENABLED NextLive)
    /\ [](\A w \in Workers :
            (statuses[w] # <<>>
             /\ statuses[w][Len(statuses[w])] = NoStatus) =>
                /\ pc[w] = "done"
                /\ sends[w] = Len(statuses[w])
                /\ ret[w].err = "request failed"
                /\ mar[w].err = "transport")

\* C22 witness: both workers have returned, one after a transport failure,
\* the other after waiting for the login of the first.
C22_Witness ==
    /\ \A w \in Workers : pc[w] = "done"
    /\ \E w \in Workers : mar[w].err = "transport"
    /\ \E w \in Workers : ret[w].err = "nil"
    /\ loginCount >= 2

\* The messages the handlers put in the body of an error response.
SafeMessages == {"Failed to generate report", "Failed to fetch students",
                 "Failed to cleanup reports"}

\* C23: for every failure answered 500, the body carries only a fixed safe
\* message and nothing of the text of the internal error.
C23_SafeErrorBody ==
    \A w \in Workers :
        http[w].status = 500 =>
            /\ http[w].message \in SafeMessages
            /\ http[w].error = NoText

\* C29: when os.Stat fails after a successful synthesis, the report is still
\* delivered: the operation is done with no error and a full ReportResult
\* whose FileSize is 0, and a handler that asked for it answers 201.
C29_StatFailure ==
    \A w \in Workers :
        (statOut[w].called /\ statOut[w].err) =>
            /\ pc[w] = "done"
            /\ out[w].err = "nil"
            /\ out[w].cause = "nil"
            /\ out[w].result.FileSize = 0
            /\ out[w].result.StudentID = call[w].id
            /\ out[w].result.ReportID = meta[w].ReportID
            /\ out[w].result.FilePath = filePath[w]
            /\ out[w].result.GeneratedAt = meta[w].GeneratedAt
            /\ out[w].result.GeneratedBy = call[w].by
            /\ synthCalls[w] = 1
            /\ http[w].status \in {NoStatus, 201}

\* C29 witness: a report has been delivered through the handler although
\* the stat of the written file failed.
C29_Witness ==
    \E w \in Workers :
        /\ statOut[w].called
        /\ statOut[w].err
        /\ http[w].route = "report"
        /\ http[w].status = 201
        /\ http[w].data.FileSize = 0

\* The first attempt of worker w was answered without a 401: by a transport
\* error or by any other status.
FirstNot401(w) == statuses[w] # <<>> /\ statuses[w][1] # 401

\* C27: only a 401 answer to the first attempt, received without transport
\* error, leads to a reauthentication.  After a transport error or any other
\* status the call has returned that answer as it is, with one send, no
\* login and no second send; and no login is sent by a worker whose first
\* attempt was answered otherwise.
C27_ReauthOnlyOn401 ==
    /\ [](\A w \in Workers :
            /\ FirstNot401(w) =>
                /\ pc[w] \notin {"auth_post", "auth_wait", "snapshot",
                               "request", "retry_request"}
                /\ sends[w] = 1
                /\ Len(statuses[w]) = 1
                /\ reauths[w] = 0
                /\ mar[w].resp = statuses[w][1]
                /\ mar[w].err = IF statuses[w][1] = NoStatus
                                THEN "transport" ELSE "nil"
            /\ (reauths[w] > 0 \/ sends[w] > 1) =>
                /\ statuses[w][1] = 401
                /\ reauths[w] = 1)
    /\ [][\A w \in Workers :
            (FirstNot401(w) \/ FirstNot401(w)') =>
                /\ logins'[w] <= logins[w]
                /\ sends'[w] <= 1]_vars

\* C27 witness: a first attempt answered 403 has been returned as an error
\* after one send, with no login other than the one that preceded it.
C27_Witness ==
    \E w \in Workers :
        /\ pc[w] = "done"
        /\ statuses[w] = <<403>>
        /\ sends[w] = 1
        /\ reauths[w] = 0
        /\ logins[w] = 1
        /\ ret[w].err # "nil"

\* Worker w is serving a health request: from the handler's call of the
\* service until the response is handed back.
InHealth(w) == http[w].route = "health"

\* C28: the health probe is unauthenticated and leaves the credential state
\* as it is.  The probe carries none of the tokens, a worker serving a health
\* request sends no login and takes no mutex, and no step of a health
\* request, whether the probe succeeds or fails and whether the store is
\* empty or not, changes the three tokens or the number of logins.
C28_ProbeUnauthenticated ==
    /\ [](\A w \in Workers :
            InHealth(w) =>
                /\ probe[w].hdr = NoTokens
                /\ probe[w].sent = 1
                /\ logins[w] = 0
                /\ sends[w] = 0
                /\ reauths[w] = 0
                /\ authMutex # w)
    /\ [][\A w \in Workers :
            (InHealth(w) \/ InHealth(w)') =>
                UNCHANGED <<tokenVars, loginCount, authMutex, issued>>]_vars

\* C28 witness: a probe that failed has been answered 503 while the store
\* held the three tokens of an earlier login.
C28_Witness ==
    \E w \in Workers :
        /\ InHealth(w)
        /\ http[w].status = 503
        /\ probe[w].failed
        /\ AllExtracted(StoredTokens)
        /\ loginCount = 1

\* C25: when the caller's deadline or cancellation signal was raised while a
\* login or a business request of the operation was in flight, the operation
\* ends with an error of the cancellation kind, which is neither the error
\* of a transport failure (a timeout) nor that of an upstream answer.
C25_CancellationAborts ==
    \A w \in Workers :
        (cancelled[w] /\ pc[w] = "done") =>
            /\ ret[w].err = "cancelled"
            /\ ret[w].err \notin {"request failed", "login request failed",
                                  "ClientError", "nil"}

DirectiveName(header) == IF header = <<>> THEN "" ELSE header[1]
RECURSIVE UpToDelimiter(_)
UpToDelimiter(s) ==
    IF s = <<>> \/ Head(s) = ";" THEN <<>>
    ELSE <<Head(s)>> \o UpToDelimiter(Tail(s))
DirectiveValue(header) ==
    IF header = <<>> THEN <<>> ELSE UpToDelimiter(Tail(header))

\* The non-empty values of the directives named name among the headers.
ValuesOf(name, headers) ==
    {DirectiveValue(headers[i]) :
        i \in {j \in DOMAIN headers : DirectiveName(headers[j]) = name}}
    \ {<<>>}

\* The same without the placeholder value, which is the name itself.
GivenValuesOf(name, headers) == ValuesOf(name, headers) \ {<<name>>}

\* What login extracted for a name.
ExtractedFor(name, c) ==
    CASE name = "accessToken="  -> c.access
      [] name = "refreshToken=" -> c.refresh
      [] name = "csrfToken="    -> c.csrf
CookieNames == {"accessToken=", "refreshToken=", "csrfToken="}

\* C30: for each of the three names login extracts the value between
\* "<name>=" and the first ";" of a directive with that name, a directive
\* with an empty value or with the placeholder value "<name>=" being
\* ignored: it neither counts as extracted nor erases the value of another
\* directive of the name; login succeeds exactly when all three names yield
\* a value.
C30_CookieExtraction ==
    (pureIn.fn = "authenticate" /\ pureOut.done) =>
        /\ \A name \in CookieNames :
            LET vals == GivenValuesOf(name, pureIn.headers)
                got  == ExtractedFor(name, pureOut.cookies)
            IN  /\ vals = {} => got = <<>>
                /\ vals # {} => got \in vals
        /\ pureOut.err = "nil" <=>
              \A name \in CookieNames :
                  GivenValuesOf(name, pureIn.headers) # {}

\* C30 as stated: only a directive with an empty value is ignored.
C30_EmptyOnlyIgnored ==
    (pureIn.fn = "authenticate" /\ pureOut.done) =>
        /\ \A name \in CookieNames :
            LET vals == ValuesOf(name, pureIn.headers)
                got  == ExtractedFor(name, pureOut.cookies)
            IN  /\ vals = {} => got = <<>>
                /\ vals # {} => got \in vals
        /\ pureOut.err = "nil" <=>
              \A name \in CookieNames :
                  ValuesOf(name, pureIn.headers) # {}

\* C30 witness: a login has succeeded on a response whose accessToken
\* directive with a value is followed by one with an empty value and the
\* value extracted is that of the first.
C30_Witness ==
    /\ pureIn.fn = "authenticate"
    /\ pureOut.done
    /\ pureOut.err = "nil"
    /\ \E i, j \in DOMAIN pureIn.headers :
        /\ i < j
        /\ DirectiveName(pureIn.headers[i]) = "accessToken="
        /\ DirectiveName(pureIn.headers[j]) = "accessToken="
        /\ DirectiveValue(pureIn.headers[j]) = <<>>
        /\ pureOut.cookies.access = DirectiveValue(pureIn.headers[i])

\* C24: constructing the client with an empty service identity or an empty
\* service secret fails with a ConfigurationError: no client is returned and
\* no login is sent with the missing credentials.
C24_EmptyCredentialsRejected ==
    (/\ pureIn.fn = "NewNodeJSClient"
     /\ pureOut.done
     /\ ~pureIn.cfg.nil
     /\ pureIn.cfg.logger
     /\ CredentialsMissing(pureIn.cfg)) =>
        /\ pureOut.err = "ConfigurationError"
        /\ pureOut.client = "nil"
        /\ ~pureOut.login.sent

\* Worker w holds the ReportResult that CreateStudentPDF returned to it.
ReportReturned(w) ==
    pc[w] = "done" /\ call[w].op = "report" /\ out[w].err = "nil"

\* C31: the report id returned to a call and the one returned to the call
\* before it are the same string exactly when the two calls were for the same
\* entity id and read the clock in the same epoch second.
C31_ReportIDCollision ==
    \A w \in Workers :
        (ReportReturned(w) /\ lastReport # NoReport) =>
            (ReportIDString(out[w].result.ReportID)
               = ReportIDString(lastReport.ReportID))
            <=> (/\ call[w].id = lastReport.id
                 /\ now \div TicksPerSecond = lastReport.second)

\* C31 witness: two calls for entity 42 in the second after the epoch have
\* been returned the same report id.
C31_Witness ==
    \E w \in Workers :
        /\ ReportReturned(w)
        /\ call[w].id = 42
        /\ lastReport.id = 42
        /\ lastReport.second = 1
        /\ now \div TicksPerSecond = 1
        /\ ReportIDString(out[w].result.ReportID)
             = <<"R", "P", "T", "-", "4", "2", "-", "1">>
        /\ ReportIDString(lastReport.ReportID)
             = ReportIDString(out[w].result.ReportID)

\* The number written after the last "-" of a report id string.
SecondsSuffix(str) ==
    LET dashes == {i \in DOMAIN str : str[i] = "-"}
        last   == CHOOSE i \in dashes : \A j \in dashes : j <= i
    IN  DecimalValue(SubSeq(str, last + 1, Len(str)))

\* C38: in every ReportResult the epoch seconds at the end of the report id
\* are those of GeneratedAt truncated to whole seconds.
C38_ReportIDInstant ==
    \A w \in Workers :
        ReportReturned(w) =>
            SecondsSuffix(ReportIDString(out[w].result.ReportID))
              = out[w].result.GeneratedAt \div TicksPerSecond

\* C32: the generatedBy passed to CreateStudentPDF by the report endpoint is
\* the generated_by query parameter when it is given and not empty and
\* "API" otherwise, and it is never empty; the result carries it.
C32_GeneratedByDefault ==
    \A w \in Workers :
        (http[w].route = "report" /\ call[w].op = "report") =>
            /\ call[w].by = IF http[w].query # "" THEN http[w].query
                            ELSE "API"
            /\ call[w].by # ""
            /\ (pc[w] = "done" /\ out[w].err = "nil") =>
                  out[w].result.GeneratedBy = call[w].by

\* C32 witness: a report asked for without generated_by has been answered
\* with a result generated by "API".
C32_Witness ==
    \E w \in Workers :
        /\ http[w].route = "report"
        /\ http[w].query = ""
        /\ http[w].status = 201
        /\ http[w].data.GeneratedBy = "API"

\* C33: validity of the token store is monotonic.  A token that is not
\* empty is never made empty by a step of any worker or by Close, and a
\* token only changes while its writer holds the mutex and stores the token
\* of a login response that carried all three.
C33_StoreStaysValid ==
    [][/\ accessToken # 0 => accessToken' # 0
       /\ refreshToken # 0 => refreshToken' # 0
       /\ csrfToken # 0 => csrfToken' # 0
       /\ StoredTokens' # StoredTokens =>
            \E w \in Workers :
                /\ authMutex = w
                /\ AllExtracted(loginResp[w].cookies)
                /\ \/ accessToken' = loginResp[w].cookies.access
                   \/ accessToken' = accessToken
                /\ \/ refreshToken' = loginResp[w].cookies.refresh
                   \/ refreshToken' = refreshToken
                /\ \/ csrfToken' = loginResp[w].cookies.csrf
                   \/ csrfToken' = csrfToken]_vars

\* C33 witness: the client has been closed with the three tokens in its
\* store after a login of the behaviour had failed.
C33_Witness ==
    /\ \A w \in Workers : pc[w] = "closed"
    /\ AllExtracted(StoredTokens)
    /\ failedLogin
    /\ loginCount = MaxLogins

\* C34: the token store never goes back to an older session.  The tokens
\* are numbered in the order the upstream issued the login responses: no
\* step replaces a token of the store by one issued earlier.
C34_NoSessionRegression ==
    [][/\ accessToken' >= accessToken
       /\ refreshToken' >= refreshToken
       /\ csrfToken' >= csrfToken]_vars

\* Worker w has an HTTP call in flight: a login, a business request or a
\* health probe.
HttpInFlight(w) ==
    pc[w] \in {"auth_wait", "request", "retry_request", "probe"}

\* C35: authMutex is never held while an HTTP call is in flight.  A worker
\* with a call in flight holds neither the write lock nor a read lock, the
\* write lock is held only by a worker storing the tokens of a response it
\* has already received, and so the store can be read whenever no worker is
\* storing tokens, however long the calls in flight take.
C35_NoLockAcrossHTTP ==
    /\ \A w \in Workers :
        HttpInFlight(w) => (authMutex # w /\ w \notin readers)
    /\ authMutex # NoWorker =>
          pc[authMutex] \in {"write_access", "write_refresh", "write_csrf"}
    /\ (\A w \in Workers :
          pc[w] \notin {"write_access", "write_refresh", "write_csrf"})
       => CanRLock

\* C35 witness: while the login of one worker is in flight another worker
\* has read the populated store and sent its request.
C35_Witness ==
    \E w, v \in Workers :
        /\ pc[w] = "auth_wait"
        /\ pc[v] = "request"
        /\ hdr[v] = StoredTokens
        /\ AllExtracted(hdr[v])
        /\ CanRLock

\* C36: the retry after a 401 is never sent with the snapshot of the first
\* attempt.  Its tokens are those in the store when the retry is sent, which
\* is after the reauthentication of this call has stored the tokens of its
\* login; they are one complete set, other than the set the first attempt
\* was sent with.
C36_RetryUsesFreshTokens ==
    /\ [](\A w \in Workers :
            pc[w] \in {"retry_snapshot", "retry_request"} =>
                (reauths[w] = 1 /\ logins[w] >= 1))
    /\ [][\A w \in Workers :
            (pc[w] = "retry_snapshot" /\ pc'[w] = "retry_request") =>
                /\ hdr'[w] = StoredTokens
                /\ OneResponse(hdr'[w])
                /\ hdr'[w] # hdr[w]
                /\ hdr'[w].access # hdr[w].access
                /\ hdr'[w].refresh # hdr[w].refresh
                /\ hdr'[w].csrf # hdr[w].csrf]_vars

\* C36 witness: a retry is in flight with the tokens of the second login
\* after a first attempt sent with those of the first.
C36_Witness ==
    \E w \in Workers :
        /\ pc[w] = "retry_request"
        /\ statuses[w] = <<401>>
        /\ hdr[w] = [access |-> 2, refresh |-> 2, csrf |-> 2]
        /\ reauths[w] = 1

\* The headers of worker w's request in flight carry the tokens of the
\* upstream's latest login response, and that login was made by this call.
FreshInCall(w) ==
    /\ logins[w] >= 1
    /\ OneResponse(hdr[w])
    /\ hdr[w].access = issued

\* The answer to worker w's business request arrives in this step.
Answered(w) ==
    /\ pc[w] \in {"request", "retry_request"}
    /\ Len(statuses'[w]) = Len(statuses[w]) + 1

MaxHandlerCalls == 3

\* The data of the responses axios.get may resolve with.
RpcNodes == {"rpc-a", "rpc-b"}

\* The errors axios.get may reject with: response.data of the error, when
\* the upstream answered, and its message.
AxiosErrors ==
    [data : {"undefined", "", "service unavailable"},
     message : {"Network Error"}]

\* The module factories passed to departmentModuleHandler, each with the
\* value it returns.
ModuleFactories == {[result |-> r] : r \in {"routes", "controller", "null"}}

\* moduleFactory(), line 29.
CallFactory(moduleFactory) == moduleFactory.result

\* JavaScript's ||, line 17: the left operand unless it is falsy.
Or(left, right) == IF left \in {"undefined", "", "null"} THEN right ELSE left

\* The argument of errorHandler, line 17.
ErrorArgument(error) == Or(error.data, error.message)

\* Mutant of InitializedAtIssue: the flag is not set before the request.
InitializedAtIssue_NotSet == FALSE

\* initializeHandler, line 10: the flag is set before axios.get is called.
InitializedAtIssue == TRUE

\* initializeHandler, lines 8-14, up to its await: return when the flag is
\* set, else set it and issue the request.
initializeHandler ==
    IF initialized
    THEN UNCHANGED <<initialized, pending, requests>>
    ELSE /\ initialized' = InitializedAtIssue
         /\ pending' = pending + 1
         /\ requests' = requests + 1

\* The module body, lines 5-32: the call of line 22, then the export.
LoadModule ==
    /\ ~loaded
    /\ loaded' = TRUE
    /\ initializeHandler
    /\ UNCHANGED <<rpcNode, reported, returned, programVars, pureVars>>

\* departmentModuleHandler, lines 25-30, called by a requirer of the module.
\* The call of line 27 is not awaited, so the handler returns in the turn in
\* which it was called.
departmentModuleHandler(moduleFactory) ==
    /\ loaded
    /\ Len(returned) < MaxHandlerCalls
    /\ IF ~initialized
       THEN initializeHandler
       ELSE UNCHANGED <<initialized, pending, requests>>
    /\ returned' = Append(returned,
                          [moduleFactory |-> moduleFactory,
                           result |-> CallFactory(moduleFactory),
                           pending |-> pending',
                           rpcNode |-> rpcNode])
    /\ UNCHANGED <<rpcNode, loaded, reported, programVars, pureVars>>

\* initializeHandler, line 15: a pending request resolves.
GetResolves ==
    /\ pending > 0
    /\ \E data \in RpcNodes : rpcNode' = data
    /\ pending' = pending - 1
    /\ UNCHANGED <<initialized, loaded, requests, reported, returned,
                   programVars, pureVars>>

\* initializeHandler, lines 16-18: a pending request rejects.
GetRejects ==
    /\ pending > 0
    /\ \E error \in AxiosErrors :
         reported' = Append(reported, ErrorArgument(error))
    /\ pending' = pending - 1
    /\ UNCHANGED <<rpcNode, initialized, loaded, requests, returned,
                   programVars, pureVars>>

NextDepartments ==
    \/ LoadModule
    \/ \E moduleFactory \in ModuleFactories :
         departmentModuleHandler(moduleFactory)
    \/ GetResolves
    \/ GetRejects

SpecDepartments == Init /\ [][NextDepartments]_vars

\* C39: the department module issues its initialization request at most
\* once per process: the module body issues it, and no call of
\* departmentModuleHandler issues another, be the request pending, resolved
\* or rejected; a call of departmentModuleHandler leaves the request as it
\* is and returns the result of the module factory it was given.
C39_InitializedOnce ==
    /\ [](requests <= 1 /\ (loaded => requests = 1))
    /\ [][Len(returned') = Len(returned) + 1 =>
            LET r == returned'[Len(returned')]
            IN  /\ requests' = requests
                /\ pending' = pending
                /\ rpcNode' = rpcNode
                /\ reported' = reported
                /\ r.result = CallFactory(r.moduleFactory)]_vars

\* Witness for C39: departmentModuleHandler has returned while the request
\* was pending and again after it was rejected, and one request was made.
C39_Witness ==
    /\ requests = 1
    /\ pending = 0
    /\ rpcNode = "null"
    /\ reported = <<"Network Error">>
    /\ Len(returned) = 3
    /\ returned[1].pending = 1
    /\ returned[3].pending = 0
    /\ returned[3].result = "routes"

====
